---- MODULE Spec2Model ----
(***************************************************************************)
(* PhotoFlow Master: the file-organisation pipeline.                       *)
(*                                                                         *)
(*   FileManager.resolve_collision / copy_file / copy_files_concurrent /   *)
(*   organize_files / create_project_structure   (photoflow/file_manager)  *)
(*   PhotoFlowManager.detect_date / create_project /                       *)
(*   process_multiple_sources                    (photoflow/core)          *)
(*   validate_path / sanitize_filename / check_disk_space (validators)     *)
(*   EXIFHandler.find_earliest_date              (photoflow/exif_handler)  *)
(*                                                                         *)
(* The entry points modelled, each with its own specification:             *)
(*   Spec         process_multiple_sources on a list of sources            *)
(*   SpecCopy     copy_files_concurrent called directly on a list of files *)
(*   SpecResolve  resolve_collision called directly on a path              *)
(*   SpecScan     find_earliest_date called directly on a directory        *)
(*   SpecCache    extract_date, clear_cache, cache_info on one handler     *)
(* The copier's actions are the same definitions in Spec and SpecCopy, and *)
(* the collision loop is the same operator in all three.                   *)
(***************************************************************************)
EXTENDS Integers, Sequences, FiniteSets, TLC

VARIABLES
    entry,       \* which entry point the client called: "batch", "copy", "resolve", "scan", ...
    pc,          \* position of the calling (control) thread
    sources,     \* process_multiple_sources: the SourceInfo list (date is mutable)
    autoDetect,  \* process_multiple_sources: auto_detect_dates
    idx,         \* process_multiple_sources: number of sources already handled
    cur,         \* create_project: locals of the call in progress
    results,     \* process_multiple_sources: the ProjectResult list
    dirs,        \* directories created under the destination drive
    pre,         \* files that were in the destination before the run (ranges)
    fs,          \* files written during the run: path -> writers, complete
    maxWorkers,  \* FileManager.max_workers
    mkdirOk,     \* whether the destination directory of a direct copy call can be made
    files,       \* copy_files_concurrent: the files argument
    destDir,     \* copy_files_concurrent: the destination_dir argument
    tasks,       \* copy_files_concurrent: one submitted copy_file call per file
    cfResults,   \* copy_files_concurrent: the results list
    rc,          \* resolve_collision called directly: its locals and outcome
    scan,        \* find_earliest_date called directly: its input, locals and outcome
    exifHandler, \* the EXIFHandler used directly: its cache, the disk, what was observed
    volume,      \* create_project_structure called directly: the drive and the last call
    naming,      \* sanitize_filename called directly: its arguments and result
    gui,         \* PhotoFlowGUI: the stop event and the worker's date loop
    legacy,      \* PhotoProManagerGUI: the cancel flag, the worker and its copy pool
    progress,    \* copy_files_concurrent: the progress callback, as_completed and the calls made
    construction, \* SourceInfo(...) called directly: the objects made and the last call
    window       \* PhotoFlowGUI: the Process button, the message queue, the dialogs, the workers

vars == <<entry, pc, sources, autoDetect, idx, cur, results, dirs, pre, fs,
          maxWorkers, mkdirOk, files, destDir, tasks, cfResults, rc, scan,
                   exifHandler, volume, naming, gui, legacy, progress, construction, window>>

(* The state of the batch, of the copier and of the date scan, which the   *)
(* calls made directly on the other components leave alone.                *)
copierVars == <<pc, sources, autoDetect, idx, cur, results, dirs, pre, fs,
                maxWorkers, mkdirOk, files, destDir, tasks, cfResults, rc, scan,
                progress, construction, window>>

(***************************************************************************)
(* Bounds of the model and constants of the program.                       *)
(***************************************************************************)
MaxFiles == 3
MaxSources == 2

MAX_WORKERS == 4
MAX_PATH_DEPTH == 10
MAX_FILENAME_LENGTH == 255
CollisionLimit == 9999

NONE == "None"

(***************************************************************************)
(* Paths.  A file name is a stem and a suffix; the stem is the sequence    *)
(* of its "_"-separated pieces, so that f"{stem}_{counter}" is Append and  *)
(* the file photo_1.jpg has the stem resolve_collision gives photo.jpg.    *)
(***************************************************************************)
FileName(stem, suffix) == [stem |-> stem, suffix |-> suffix]

Join(dir, name) == [parent |-> dir, stem |-> name.stem, suffix |-> name.suffix]

WithCounter(path, counter) == [path EXCEPT !.stem = Append(@, counter)]

(* A range of files present before the run: in directory parent, the names *)
(* stem (n = 0) and stem_n (n >= 1) for lo <= n <= hi.                     *)
InRange(r, path) ==
    /\ path.parent = r.parent
    /\ path.suffix = r.suffix
    /\ \/ r.lo = 0 /\ path.stem = r.stem
       \/ /\ Len(path.stem) = Len(r.stem) + 1
          /\ SubSeq(path.stem, 1, Len(r.stem)) = r.stem
          /\ path.stem[Len(path.stem)] >= 1
          /\ path.stem[Len(path.stem)] >= r.lo
          /\ path.stem[Len(path.stem)] <= r.hi

PreExisting(path) == \E r \in pre : InRange(r, path)

Exists(path) == path \in DOMAIN fs \/ PreExisting(path)

(***************************************************************************)
(* validate_path.  A node is what the filesystem holds at a path: parts    *)
(* (depth of the resolved path), exists, is_dir, is_file, readable.  The   *)
(* result is the reason of the PathValidationError, or "ok".               *)
(***************************************************************************)
(* A validation without the test of the depth.                             *)
ValidatePathNoDepth(node, must_exist, must_be_dir, must_be_file, check_readable) ==
    IF must_exist /\ ~node.exists THEN "Path does not exist"
    ELSE IF must_be_dir /\ node.exists /\ ~node.is_dir THEN "Path is not a directory"
    ELSE IF must_be_file /\ node.exists /\ ~node.is_file THEN "Path is not a file"
    ELSE IF check_readable /\ node.exists /\ ~node.readable
         THEN (IF node.is_dir THEN "Directory is not readable"
               ELSE "Path is not readable")
    ELSE "ok"

ValidatePath(node, must_exist, must_be_dir, must_be_file, check_readable) ==
    IF node.parts > MAX_PATH_DEPTH THEN "Path depth exceeds 10"
    ELSE IF must_exist /\ ~node.exists THEN "Path does not exist"
    ELSE IF must_be_dir /\ node.exists /\ ~node.is_dir THEN "Path is not a directory"
    ELSE IF must_be_file /\ node.exists /\ ~node.is_file THEN "Path is not a file"
    ELSE IF check_readable /\ node.exists /\ ~node.readable
         THEN (IF node.is_dir THEN "Directory is not readable"
               ELSE "Path is not readable")
    ELSE "ok"

(***************************************************************************)
(* resolve_collision.  ResolveEntry is the test before the loop,           *)
(* ResolveIter one turn of the while loop with the given counter.          *)
(***************************************************************************)
(* resolve_collision without its early return.                             *)
ResolveEntryAlwaysLoop(destination) ==
    [op |-> "loop", path |-> destination, counter |-> 1]

ResolveEntry(destination) ==
    IF ~Exists(destination)
    THEN [op |-> "return", path |-> destination, counter |-> 0]
    ELSE [op |-> "loop", path |-> destination, counter |-> 1]

(* The loop taking the first suffixed name without testing it.             *)
ResolveIterNoRetest(destination, counter) ==
    [op |-> "return", path |-> WithCounter(destination, counter),
     counter |-> counter]

(* The loop giving up one attempt early (counter >= 9999).                 *)
ResolveIterOffByOne(destination, counter) ==
    IF ~Exists(WithCounter(destination, counter))
    THEN [op |-> "return", path |-> WithCounter(destination, counter),
          counter |-> counter]
    ELSE IF counter + 1 >= CollisionLimit
    THEN [op |-> "raise", path |-> destination, counter |-> counter + 1]
    ELSE [op |-> "loop", path |-> destination, counter |-> counter + 1]

ResolveIter(destination, counter) ==
    IF ~Exists(WithCounter(destination, counter))
    THEN [op |-> "return", path |-> WithCounter(destination, counter),
          counter |-> counter]
    ELSE IF counter + 1 > CollisionLimit
    THEN [op |-> "raise", path |-> destination, counter |-> counter + 1]
    ELSE [op |-> "loop", path |-> destination, counter |-> counter + 1]

TooManyCollisions == "Too many collisions (>9999)"

(***************************************************************************)
(* copy_file, run by a pool worker as task t of the current call.          *)
(***************************************************************************)
CopyResult(source, destination, success, error, renamed) ==
    [source |-> source, destination |-> destination, success |-> success,
     error |-> error, renamed |-> renamed]

NoPath == [parent |-> <<>>, stem |-> <<>>, suffix |-> ""]

NoResult == CopyResult(NoPath, NoPath, FALSE, NONE, FALSE)

Task(p, dest, counter, renamed, result) ==
    [pc |-> p, dest |-> dest, counter |-> counter, renamed |-> renamed,
     result |-> result]

(* copy_files_concurrent called with a progress callback: whether one was  *)
(* given, whether as_completed has begun to wait, the finished futures it  *)
(* will yield next (in that order), the order in which the copy_file calls *)
(* ended and how many of them ended before as_completed began, the calls   *)
(* made to the callback and the number of them in progress.  Without a     *)
(* callback none of this is followed and any finished future is yielded.   *)
Progress(callback, waiting, ready, ended, early, calls, active) ==
    [callback |-> callback, waiting |-> waiting, ready |-> ready, ended |-> ended,
     early |-> early, calls |-> calls, active |-> active]

NoProgress == Progress(FALSE, FALSE, <<>>, <<>>, 0, <<>>, 0)

(* progress_callback(completed, total, result.source), with the future     *)
(* whose result it reports.                                                *)
ProgressCall(completed, total, current_file, future) ==
    [completed |-> completed, total |-> total, current_file |-> current_file,
     future |-> future]

(* The call of task t has ended with the tasks ts: its future is finished. *)
(* A future finished while as_completed waits is yielded after those that  *)
(* finished before it; the futures finished before as_completed began are  *)
(* yielded first, in the order of a set.                                   *)
Ended(t, ts) ==
    IF ~progress.callback \/ ts[t].pc # "finished" THEN progress
    ELSE [progress EXCEPT !.ended = Append(@, t),
                          !.early = IF progress.waiting THEN @ ELSE @ + 1,
                          !.ready = IF progress.waiting THEN Append(@, t) ELSE @]

(* The orders in which the members of a set can be enumerated.             *)
Orders(S) ==
    {o \in [1..Cardinality(S) -> S] : \A i, j \in 1..Cardinality(S) : o[i] = o[j] => i = j}

Tasks == DOMAIN tasks

(* A pool thread that never releases the worker it took.                   *)
Occupied == {t \in Tasks : tasks[t].pc # "queued"}

(* The tasks that hold a pool thread: inside copy_file, or blocked for     *)
(* ever in one of its filesystem calls.                                    *)
Running == {t \in Tasks : tasks[t].pc \in {"resolve", "copy", "hung"}}

Hung == {t \in Tasks : tasks[t].pc = "hung"}

(* An except branch that drops the message.                                *)
FailureNoMessage(t, error) ==
    Task("finished", NoPath, 0, FALSE,
         CopyResult(files[t].path, Join(destDir, files[t].path.name), FALSE,
                    NONE, FALSE))

(* The except branch of copy_file: the reported destination is the         *)
(* intended one, renamed keeps its default.                                *)
Failure(t, error) ==
    Task("finished", NoPath, 0, FALSE,
         CopyResult(files[t].path, Join(destDir, files[t].path.name), FALSE,
                    error, FALSE))

Writer(t) == <<idx + 1, t>>

Written(path, writer, complete) ==
    LET before == IF path \in DOMAIN fs THEN fs[path].writers
                  ELSE IF PreExisting(path) THEN << <<0, 0>> >>
                  ELSE <<>>
    IN  (path :> [writers |-> Append(before, writer), complete |-> complete]) @@ fs

(* A pool that starts a thread for every queued task.                      *)
StartCopyUnbounded(t) ==
    /\ tasks[t].pc = "queued"
    /\ LET reason == ValidatePath(files[t], TRUE, FALSE, TRUE, TRUE)
           destination == Join(destDir, files[t].path.name)
           r == ResolveEntry(destination)
       IN  tasks' = [tasks EXCEPT ![t] =
                IF reason # "ok" THEN Failure(t, reason)
                ELSE IF ~Exists(destination)
                THEN Task("copy", destination, 0, FALSE, NoResult)
                ELSE IF r.op = "return"
                THEN Task("copy", r.path, 0, TRUE, NoResult)
                ELSE Task("resolve", destination, r.counter, FALSE, NoResult)]
    /\ UNCHANGED <<entry, pc, sources, autoDetect, idx, cur, results, dirs, pre,
                   fs, maxWorkers, mkdirOk, files, destDir, cfResults, rc, scan,
                   exifHandler, volume, naming, gui, legacy, progress, construction, window>>

(* A worker takes the oldest queued task, validates the source and tests   *)
(* whether the intended destination exists.                                *)
StartCopy(t) ==
    /\ tasks[t].pc = "queued"
    /\ \A u \in Tasks : u < t => tasks[u].pc # "queued"
    /\ Cardinality(Running) < maxWorkers
    /\ LET reason == ValidatePath(files[t], TRUE, FALSE, TRUE, TRUE)
           destination == Join(destDir, files[t].path.name)
           r == ResolveEntry(destination)
       IN  tasks' = [tasks EXCEPT ![t] =
                IF reason # "ok" THEN Failure(t, reason)
                ELSE IF ~Exists(destination)
                THEN Task("copy", destination, 0, FALSE, NoResult)
                ELSE IF r.op = "return"
                THEN Task("copy", r.path, 0, TRUE, NoResult)
                ELSE Task("resolve", destination, r.counter, FALSE, NoResult)]
    /\ UNCHANGED <<entry, pc, sources, autoDetect, idx, cur, results, dirs, pre,
                   fs, maxWorkers, mkdirOk, files, destDir, cfResults, rc, scan,
                   exifHandler, volume, naming, gui, legacy, construction, window>>
    /\ progress' = Ended(t, tasks')

(* One turn of resolve_collision's loop inside copy_file.                  *)
ResolveStep(t) ==
    /\ tasks[t].pc = "resolve"
    /\ LET r == ResolveIter(tasks[t].dest, tasks[t].counter)
       IN  tasks' = [tasks EXCEPT ![t] =
                IF r.op = "return" THEN Task("copy", r.path, 0, TRUE, NoResult)
                ELSE IF r.op = "raise" THEN Failure(t, TooManyCollisions)
                ELSE Task("resolve", tasks[t].dest, r.counter, FALSE, NoResult)]
    /\ UNCHANGED <<entry, pc, sources, autoDetect, idx, cur, results, dirs, pre,
                   fs, maxWorkers, mkdirOk, files, destDir, cfResults, rc, scan,
                   exifHandler, volume, naming, gui, legacy, construction, window>>
    /\ progress' = Ended(t, tasks')

(* A copy_file that never reports the renaming.                             *)
CopyStepForgetsRenamed(t) ==
    /\ tasks[t].pc = "copy"
    /\ fs' = Written(tasks[t].dest, Writer(t), files[t].copy_ok)
    /\ tasks' = [tasks EXCEPT ![t] =
            IF files[t].copy_ok
            THEN Task("finished", tasks[t].dest, 0, tasks[t].renamed,
                      CopyResult(files[t].path, tasks[t].dest, TRUE, NONE, FALSE))
            ELSE Failure(t, "I/O error")]
    /\ UNCHANGED <<entry, pc, sources, autoDetect, idx, cur, results, dirs, pre,
                   maxWorkers, mkdirOk, files, destDir, cfResults, rc, scan,
                   exifHandler, volume, naming, gui, legacy, construction, window>>
    /\ progress' = Ended(t, tasks')

(* shutil.copy2 to the chosen destination: the destination file is opened  *)
(* for writing (created or truncated) and written; a copy that fails       *)
(* leaves what it wrote.                                                   *)
CopyStep(t) ==
    /\ tasks[t].pc = "copy"
    /\ fs' = Written(tasks[t].dest, Writer(t), files[t].copy_ok)
    /\ tasks' = [tasks EXCEPT ![t] =
            IF files[t].copy_ok
            THEN Task("finished", tasks[t].dest, 0, tasks[t].renamed,
                      CopyResult(files[t].path, tasks[t].dest, TRUE, NONE,
                                 tasks[t].renamed))
            ELSE Failure(t, "I/O error")]
    /\ UNCHANGED <<entry, pc, sources, autoDetect, idx, cur, results, dirs, pre,
                   maxWorkers, mkdirOk, files, destDir, cfResults, rc, scan,
                   exifHandler, volume, naming, gui, legacy, construction, window>>
    /\ progress' = Ended(t, tasks')

(* A filesystem call of copy_file (exists, copy2) that never returns: the  *)
(* thread stays inside copy_file and the future is never finished.         *)
Hang(t) ==
    /\ tasks[t].pc \in {"resolve", "copy"}
    /\ tasks' = [tasks EXCEPT ![t].pc = "hung"]
    /\ UNCHANGED <<entry, pc, sources, autoDetect, idx, cur, results, dirs, pre,
                   fs, maxWorkers, mkdirOk, files, destDir, cfResults, rc, scan,
                   exifHandler, volume, naming, gui, legacy, progress, construction, window>>

(***************************************************************************)
(* copy_files_concurrent, run by the calling thread.                       *)
(***************************************************************************)
Ancestors(dir) == {SubSeq(dir, 1, n) : n \in 1..Len(dir)}

(* mkdir of the destination, then every file is submitted to the pool.     *)
CFC_Call ==
    /\ pc = "cfc_call"
    /\ IF mkdirOk \/ destDir \in dirs
       THEN /\ dirs' = dirs \cup Ancestors(destDir)
            /\ tasks' = [t \in 1..Len(files) |-> Task("queued", NoPath, 0, FALSE, NoResult)]
            /\ pc' = "cfc_collect"
       ELSE /\ pc' = "raised"
            /\ UNCHANGED <<dirs, tasks>>
    /\ cfResults' = <<>>
    /\ UNCHANGED <<entry, sources, autoDetect, idx, cur, results, pre, fs,
                   maxWorkers, mkdirOk, files, destDir, rc, scan,
                   exifHandler, volume, naming, gui, legacy, construction, window>>
    /\ progress' = Progress(progress.callback, FALSE, <<>>, <<>>, 0, <<>>, 0)

(* A collecting loop that keeps the successful results only.               *)
CollectSuccessOnly(t) ==
    /\ pc = "cfc_collect"
    /\ tasks[t].pc = "finished"
    /\ cfResults' = IF tasks[t].result.success
                    THEN Append(cfResults, tasks[t].result) ELSE cfResults
    /\ tasks' = [tasks EXCEPT ![t].pc = "collected"]
    /\ UNCHANGED <<entry, pc, sources, autoDetect, idx, cur, results, dirs, pre,
                   fs, maxWorkers, mkdirOk, files, destDir, rc, scan,
                   exifHandler, volume, naming, gui, legacy, progress, construction, window>>

(* A copy_file without its try/except: future.result() re-raises the       *)
(* error of a failed copy in the calling thread.                           *)
CollectReraise(t) ==
    /\ pc = "cfc_collect"
    /\ tasks[t].pc = "finished"
    /\ IF tasks[t].result.success
       THEN /\ cfResults' = Append(cfResults, tasks[t].result)
            /\ pc' = pc
       ELSE /\ pc' = "raised"
            /\ cfResults' = cfResults
    /\ tasks' = [tasks EXCEPT ![t].pc = "collected"]
    /\ UNCHANGED <<entry, sources, autoDetect, idx, cur, results, dirs, pre,
                   fs, maxWorkers, mkdirOk, files, destDir, rc, scan,
                   exifHandler, volume, naming, gui, legacy, progress, construction, window>>

(* A callback called with the count before it is incremented.              *)
CollectStaleCount(t) ==
    /\ pc = "cfc_collect"
    /\ tasks[t].pc = "finished"
    /\ progress.callback => (progress.ready # <<>> /\ t = Head(progress.ready))
    /\ cfResults' = Append(cfResults, tasks[t].result)
    /\ tasks' = [tasks EXCEPT ![t].pc = "collected"]
    /\ IF progress.callback
       THEN /\ progress' = [progress EXCEPT
                   !.ready = Tail(@),
                   !.calls = Append(@, ProgressCall(Len(cfResults), Len(files),
                                                    tasks[t].result.source, t)),
                   !.active = @ + 1]
            /\ pc' = "cfc_callback"
       ELSE UNCHANGED <<pc, progress>>
    /\ UNCHANGED <<entry, sources, autoDetect, idx, cur, results, dirs, pre,
                   fs, maxWorkers, mkdirOk, files, destDir, rc, scan,
                   exifHandler, volume, naming, gui, legacy, construction, window>>

(* as_completed begins: it sets aside the futures already finished, which  *)
(* it yields first, and waits for the others.                              *)
AsCompleted ==
    /\ pc = "cfc_collect"
    /\ progress.callback
    /\ ~progress.waiting
    /\ \E order \in Orders({t \in Tasks : tasks[t].pc = "finished"}) :
         progress' = [progress EXCEPT !.waiting = TRUE, !.ready = order]
    /\ UNCHANGED <<entry, pc, sources, autoDetect, idx, cur, results, dirs, pre,
                   fs, maxWorkers, mkdirOk, files, destDir, tasks, cfResults, rc, scan,
                   exifHandler, volume, naming, gui, legacy, construction, window>>

(* as_completed hands over a finished future; its result is appended, the  *)
(* count incremented and the callback, if any, called with the count, the  *)
(* total and the source of the result.                                     *)
Collect(t) ==
    /\ pc = "cfc_collect"
    /\ tasks[t].pc = "finished"
    /\ progress.callback => (progress.ready # <<>> /\ t = Head(progress.ready))
    /\ cfResults' = Append(cfResults, tasks[t].result)
    /\ tasks' = [tasks EXCEPT ![t].pc = "collected"]
    /\ IF progress.callback
       THEN /\ progress' = [progress EXCEPT
                   !.ready = Tail(@),
                   !.calls = Append(@, ProgressCall(Len(cfResults) + 1, Len(files),
                                                    tasks[t].result.source, t)),
                   !.active = @ + 1]
            /\ pc' = "cfc_callback"
       ELSE UNCHANGED <<pc, progress>>
    /\ UNCHANGED <<entry, sources, autoDetect, idx, cur, results, dirs, pre,
                   fs, maxWorkers, mkdirOk, files, destDir, rc, scan,
                   exifHandler, volume, naming, gui, legacy, construction, window>>

(* The callback returns to the loop.                                       *)
CallbackReturns ==
    /\ pc = "cfc_callback"
    /\ progress' = [progress EXCEPT !.active = @ - 1]
    /\ pc' = "cfc_collect"
    /\ UNCHANGED <<entry, sources, autoDetect, idx, cur, results, dirs, pre,
                   fs, maxWorkers, mkdirOk, files, destDir, tasks, cfResults, rc, scan,
                   exifHandler, volume, naming, gui, legacy, construction, window>>

AllCollected == \A t \in Tasks : tasks[t].pc = "collected"

(* A return that waits for the first result only and leaves the pool       *)
(* running (shutdown without wait).                                        *)
CFC_ReturnEarly ==
    /\ pc = "cfc_collect"
    /\ \E t \in Tasks : tasks[t].pc = "collected"
    /\ pc' = "copy_done"
    /\ UNCHANGED <<entry, sources, autoDetect, idx, cur, results, dirs, pre, fs,
                   maxWorkers, mkdirOk, files, destDir, tasks, cfResults, rc, scan,
                   exifHandler, volume, naming, gui, legacy, progress, construction, window>>

(* as_completed is exhausted, the pool is shut down, the list is returned. *)
CFC_Return ==
    /\ pc = "cfc_collect"
    /\ AllCollected
    /\ pc' = "copy_done"
    /\ UNCHANGED <<entry, sources, autoDetect, idx, cur, results, dirs, pre, fs,
                   maxWorkers, mkdirOk, files, destDir, tasks, cfResults, rc, scan,
                   exifHandler, volume, naming, gui, legacy, progress, construction, window>>

(***************************************************************************)
(* EXIFHandler.  A datetime is a year, month, day and second of the day;   *)
(* datetimes compare field by field.  An Optional[datetime] is the empty   *)
(* sequence (None) or a sequence of one datetime.                          *)
(***************************************************************************)
DateTime(year, month, day, second) ==
    [year |-> year, month |-> month, day |-> day, second |-> second]

Nothing == <<>>

Some(d) == <<d>>

(* date_taken < earliest_date *)
Before(a, b) ==
    \/ a.year < b.year
    \/ a.year = b.year /\ a.month < b.month
    \/ a.year = b.year /\ a.month = b.month /\ a.day < b.day
    \/ a.year = b.year /\ a.month = b.month /\ a.day = b.day /\ a.second < b.second

Digits == <<"0", "1", "2", "3", "4", "5", "6", "7", "8", "9">>

Pad(n, width) == [i \in 1..width |-> Digits[((n \div (10 ^ (width - i))) % 10) + 1]]

(* strftime(ISO_DATE_FORMAT), "%Y-%m-%d" *)
Strftime(d) == Pad(d.year, 4) \o <<"-">> \o Pad(d.month, 2) \o <<"-">> \o Pad(d.day, 2)

(* What a directory walk yields: is_file, the suffix of the name, and the  *)
(* image the file holds: whether Image.open succeeds ("ok", "ioerror",     *)
(* "unidentified"), whether it has EXIF data, whether the DateTimeOriginal *)
(* tag is there, whether its text parses, and the datetime it parses to.   *)
Image(open, exif, tagged, valid, value) ==
    [open |-> open, exif |-> exif, tagged |-> tagged, valid |-> valid,
     value |-> value]

DirEntry(is_file, suffix, image) ==
    [is_file |-> is_file, suffix |-> suffix, image |-> image]

(* _extract_date_uncached: the datetime, None, or an EXIFError.            *)
ExtractDateUncached(image) ==
    IF image.open = "ioerror"
    THEN [op |-> "raise", reason |-> "Cannot open image", value |-> Nothing]
    ELSE IF image.open = "unidentified"
    THEN [op |-> "raise", reason |-> "Unidentified image format", value |-> Nothing]
    ELSE IF ~image.exif THEN [op |-> "return", reason |-> "", value |-> Nothing]
    ELSE IF ~image.tagged THEN [op |-> "return", reason |-> "", value |-> Nothing]
    ELSE IF ~image.valid THEN [op |-> "return", reason |-> "", value |-> Nothing]
    ELSE [op |-> "return", reason |-> "", value |-> Some(image.value)]

ALL_SUPPORTED_FORMATS ==
    {".ARW", ".CR2", ".CR3", ".NEF", ".RAF", ".DNG", ".ORF", ".RW2",
     ".JPG", ".JPEG", ".TIFF", ".TIF", ".PNG"}

(* str.upper on the suffixes the model uses.                               *)
Upper(suffix) ==
    CASE suffix = ".jpg" -> ".JPG"
      [] suffix = ".cr2" -> ".CR2"
      [] suffix = ".txt" -> ".TXT"
      [] suffix = ".mp4" -> ".MP4"
      [] OTHER -> suffix

(* _iter_supported_images yields the entry.                                *)
Supported(e) == e.is_file /\ Upper(e.suffix) \in ALL_SUPPORTED_FORMATS

Scan(p, listing, callback, i, earliest, files_checked, dates_found, notified, result) ==
    [pc |-> p, listing |-> listing, callback |-> callback, i |-> i,
     earliest |-> earliest, files_checked |-> files_checked,
     dates_found |-> dates_found, notified |-> notified, result |-> result]

NoScan == Scan("idle", <<>>, FALSE, 0, Nothing, 0, 0, <<>>, Nothing)

(* A loop body that lets the EXIFError out: the scan ends there.           *)
VisitPropagate(s, file) ==
    LET r == ExtractDateUncached(s.listing[file].image)
        checked == [s EXCEPT !.i = file, !.files_checked = @ + 1]
    IN  IF r.op = "raise" THEN [checked EXCEPT !.pc = "raised"]
        ELSE IF r.value = Nothing THEN checked
        ELSE IF s.earliest = Nothing \/ Before(r.value[1], s.earliest[1])
        THEN [checked EXCEPT !.dates_found = @ + 1, !.earliest = r.value,
                             !.notified = IF s.callback
                                          THEN Append(@, <<file, r.value[1]>>)
                                          ELSE @]
        ELSE [checked EXCEPT !.dates_found = @ + 1]

(* A loop body that compares with <= : a tie replaces the minimum and is   *)
(* notified.                                                               *)
VisitTieNotifies(s, file) ==
    LET r == ExtractDateUncached(s.listing[file].image)
        checked == [s EXCEPT !.i = file, !.files_checked = @ + 1]
    IN  IF r.op = "raise" THEN checked
        ELSE IF r.value = Nothing THEN checked
        ELSE IF s.earliest = Nothing \/ ~Before(s.earliest[1], r.value[1])
        THEN [checked EXCEPT !.dates_found = @ + 1, !.earliest = r.value,
                             !.notified = IF s.callback
                                          THEN Append(@, <<file, r.value[1]>>)
                                          ELSE @]
        ELSE [checked EXCEPT !.dates_found = @ + 1]

(* A loop body that keeps the date of the last dated file.                 *)
VisitKeepLast(s, file) ==
    LET r == ExtractDateUncached(s.listing[file].image)
        checked == [s EXCEPT !.i = file, !.files_checked = @ + 1]
    IN  IF r.op = "raise" THEN checked
        ELSE IF r.value = Nothing THEN checked
        ELSE [checked EXCEPT !.dates_found = @ + 1, !.earliest = r.value,
                             !.notified = IF s.callback
                                          THEN Append(@, <<file, r.value[1]>>)
                                          ELSE @]

(* A loop body that notifies for every file it checked.                    *)
VisitNotifyAll(s, file) ==
    LET r == ExtractDateUncached(s.listing[file].image)
        checked == [s EXCEPT !.i = file, !.files_checked = @ + 1,
                             !.notified = IF s.callback
                                          THEN Append(@, <<file, DateTime(0, 0, 0, 0)>>)
                                          ELSE @]
    IN  IF r.op = "raise" THEN checked
        ELSE IF r.value = Nothing THEN checked
        ELSE IF s.earliest = Nothing \/ Before(r.value[1], s.earliest[1])
        THEN [checked EXCEPT !.dates_found = @ + 1, !.earliest = r.value]
        ELSE [checked EXCEPT !.dates_found = @ + 1]

(* find_earliest_date: the body of its loop for the supported image at     *)
(* position file of the listing, on the locals s.                          *)
Visit(s, file) ==
    LET r == ExtractDateUncached(s.listing[file].image)
        checked == [s EXCEPT !.i = file, !.files_checked = @ + 1]
    IN  IF r.op = "raise" THEN checked
        ELSE IF r.value = Nothing THEN checked
        ELSE IF s.earliest = Nothing \/ Before(r.value[1], s.earliest[1])
        THEN [checked EXCEPT !.dates_found = @ + 1, !.earliest = r.value,
                             !.notified = IF s.callback
                                          THEN Append(@, <<file, r.value[1]>>)
                                          ELSE @]
        ELSE [checked EXCEPT !.dates_found = @ + 1]

(* The walk moves to the next directory entry; a supported image is        *)
(* handed to the loop body, anything else is passed over.                  *)
FE_Visit ==
    /\ entry = "scan"
    /\ scan.pc = "scan"
    /\ scan.i < Len(scan.listing)
    /\ scan' = IF Supported(scan.listing[scan.i + 1])
               THEN Visit(scan, scan.i + 1)
               ELSE [scan EXCEPT !.i = @ + 1]
    /\ UNCHANGED <<pc, sources, autoDetect, idx, cur, results, dirs, pre,
                   fs, maxWorkers, mkdirOk, files, destDir, tasks, cfResults,
                   rc, entry,
                   exifHandler, volume, naming, gui, legacy, progress, construction, window>>

(* The walk is over: the running minimum is returned.                      *)
FE_Return ==
    /\ entry = "scan"
    /\ scan.pc = "scan"
    /\ scan.i = Len(scan.listing)
    /\ scan' = [scan EXCEPT !.pc = "returned", !.result = scan.earliest]
    /\ UNCHANGED <<pc, sources, autoDetect, idx, cur, results, dirs, pre,
                   fs, maxWorkers, mkdirOk, files, destDir, tasks, cfResults,
                   rc, entry,
                   exifHandler, volume, naming, gui, legacy, progress, construction, window>>

(* find_earliest_date as a function of the listing.                        *)
RECURSIVE ScanFrom(_)
ScanFrom(s) ==
    IF s.i = Len(s.listing) THEN [s EXCEPT !.pc = "returned", !.result = s.earliest]
    ELSE ScanFrom(IF Supported(s.listing[s.i + 1]) THEN Visit(s, s.i + 1)
                  ELSE [s EXCEPT !.i = @ + 1])

FindEarliestDate(listing, callback) ==
    ScanFrom(Scan("scan", listing, callback, 0, Nothing, 0, 0, <<>>, Nothing)).result

(***************************************************************************)
(* The cache of extract_date: functools.lru_cache(maxsize=cache_size)      *)
(* around _extract_date_uncached, keyed by the resolved path.  entries is  *)
(* the cache from the least to the most recently used entry.               *)
(***************************************************************************)
ImagePath(file, relative) == [file |-> file, relative |-> relative]

(* image_path.resolve(): the relative and the absolute spelling of a file  *)
(* give the same absolute path.                                            *)
Resolve(image_path) == image_path.file

Keys(entries) == {entries[i].key : i \in DOMAIN entries}

Position(entries, key) == CHOOSE i \in DOMAIN entries : entries[i].key = key

Without(entries, i) == SubSeq(entries, 1, i - 1) \o SubSeq(entries, i + 1, Len(entries))

Lru(maxsize, entries, hits, misses) ==
    [maxsize |-> maxsize, entries |-> entries, hits |-> hits, misses |-> misses]

Outcome(cache, outcome, result, evicted, opened) ==
    [cache |-> cache, outcome |-> outcome, result |-> result,
     evicted |-> evicted, opened |-> opened]

(* A cache that stores nothing.                                            *)
CachedCallNoStore(c, key, image) ==
    LET r == ExtractDateUncached(image)
        missed == [c EXCEPT !.misses = @ + 1]
    IN  IF r.op = "raise" THEN Outcome(missed, "error", Nothing, 0, TRUE)
        ELSE Outcome(missed, "miss", r.value, 0, TRUE)

(* A cache that evicts the oldest insertion: a hit does not renew its      *)
(* entry.                                                                  *)
CachedCallFifo(c, key, image) ==
    IF c.maxsize = 0
    THEN LET r == ExtractDateUncached(image)
             missed == [c EXCEPT !.misses = @ + 1]
         IN  IF r.op = "raise" THEN Outcome(missed, "error", Nothing, 0, TRUE)
             ELSE Outcome(missed, "miss", r.value, 0, TRUE)
    ELSE IF key \in Keys(c.entries)
    THEN Outcome([c EXCEPT !.hits = @ + 1], "hit",
                 c.entries[Position(c.entries, key)].value, 0, FALSE)
    ELSE LET r == ExtractDateUncached(image)
             missed == [c EXCEPT !.misses = @ + 1]
             link == [key |-> key, value |-> r.value]
         IN  IF r.op = "raise" THEN Outcome(missed, "error", Nothing, 0, TRUE)
             ELSE IF Len(c.entries) >= c.maxsize
             THEN Outcome([missed EXCEPT !.entries = Append(Tail(@), link)],
                          "miss", r.value, Head(c.entries).key, TRUE)
             ELSE Outcome([missed EXCEPT !.entries = Append(@, link)],
                          "miss", r.value, 0, TRUE)

(* self._extract_cached(abs_path) on the cache c, image being what the     *)
(* file holds now.  A hit returns the stored value and renews the entry;   *)
(* a miss is counted, the file is read, and the value is stored unless     *)
(* the extraction raised; a full cache loses its least recently used       *)
(* entry.                                                                  *)
CachedCall(c, key, image) ==
    IF c.maxsize = 0
    THEN LET r == ExtractDateUncached(image)
             missed == [c EXCEPT !.misses = @ + 1]
         IN  IF r.op = "raise" THEN Outcome(missed, "error", Nothing, 0, TRUE)
             ELSE Outcome(missed, "miss", r.value, 0, TRUE)
    ELSE IF key \in Keys(c.entries)
    THEN LET i == Position(c.entries, key)
         IN  Outcome([c EXCEPT !.hits = @ + 1,
                               !.entries = Append(Without(@, i), c.entries[i])],
                     "hit", c.entries[i].value, 0, FALSE)
    ELSE LET r == ExtractDateUncached(image)
             missed == [c EXCEPT !.misses = @ + 1]
             link == [key |-> key, value |-> r.value]
         IN  IF r.op = "raise" THEN Outcome(missed, "error", Nothing, 0, TRUE)
             ELSE IF Len(c.entries) >= c.maxsize
             THEN Outcome([missed EXCEPT !.entries = Append(Tail(@), link)],
                          "miss", r.value, Head(c.entries).key, TRUE)
             ELSE Outcome([missed EXCEPT !.entries = Append(@, link)],
                          "miss", r.value, 0, TRUE)

(* cache_clear that drops the entries and keeps the counters.              *)
CacheClearKeepsCounters(c) == [c EXCEPT !.entries = <<>>]

(* self._extract_cached.cache_clear()                                      *)
CacheClear(c) == [c EXCEPT !.entries = <<>>, !.hits = 0, !.misses = 0]

(* cache_info; hit_rate is the fraction <<numerator, denominator>>.        *)
CacheInfo(c) ==
    [hits |-> c.hits, misses |-> c.misses, size |-> Len(c.entries),
     maxsize |-> c.maxsize,
     hit_rate |-> IF c.hits + c.misses > 0 THEN <<c.hits, c.hits + c.misses>>
                  ELSE <<0, 1>>]

(* The handler with what is on the disk and what has been observed of it   *)
(* since the last clear_cache: lookups made, reads of each file, errors    *)
(* and evictions of each key, the value last read from each file, the      *)
(* step of the last use of each key, and the last operation.               *)
Handler(cache, disk, steps, lookups, reads, opens, errors, evicted, seen, used, last) ==
    [cache |-> cache, disk |-> disk, steps |-> steps, lookups |-> lookups,
     reads |-> reads, opens |-> opens, errors |-> errors, evicted |-> evicted,
     seen |-> seen, used |-> used, last |-> last]

Operation(op, path, held, earlier, outcome, result, evicted, opened) ==
    [op |-> op, path |-> path, held |-> held, earlier |-> earlier,
     outcome |-> outcome, result |-> result, evicted |-> evicted,
     opened |-> opened]

NoOperation ==
    Operation("none", ImagePath(0, FALSE), FALSE, Nothing, "none", Nothing, 0, FALSE)

NoCache ==
    Handler(Lru(0, <<>>, 0, 0), <<>>, 0, 0, <<>>, <<>>, <<>>, <<>>, <<>>, <<>>,
            NoOperation)

Get(f, k) == IF k \in DOMAIN f THEN f[k] ELSE 0

Put(f, k, v) == (k :> v) @@ f

(***************************************************************************)
(* create_project_structure and sanitize_filename called directly: the     *)
(* records of their state.                                                 *)
(***************************************************************************)
(* A drive: its directories (the root <<>> apart), its regular files, the  *)
(* directories in which nothing may be created, and the number of          *)
(* directories it still has room for.                                      *)
Drive(directories, regular, readonly, room) ==
    [directories |-> directories, regular |-> regular, readonly |-> readonly,
     room |-> room]

(* One call: its arguments, the drive before it, the message of the        *)
(* exception it raised (<<>> if none), the path it returned, the mkdir     *)
(* calls it made, whether it repeats the call before it and what that      *)
(* call raised and returned; for create_project its ProjectResult and the  *)
(* folder handed to organize_files.                                        *)
Build(op, args, before, raised, returned, attempted, repeated, earlier, result, organized) ==
    [op |-> op, args |-> args, before |-> before, raised |-> raised,
     returned |-> returned, attempted |-> attempted, repeated |-> repeated,
     earlier |-> earlier, result |-> result, organized |-> organized]

NoBuild ==
    Build("none", <<>>, Drive({}, {}, {}, 0), <<>>, <<>>, <<>>, FALSE, <<>>, <<>>, <<>>)

Volume(drive, calls, last) == [drive |-> drive, calls |-> calls, last |-> last]

NoVolume == Volume(Drive({}, {}, {}, 0), 0, NoBuild)

Naming(name, max_length, result, called) ==
    [name |-> name, max_length |-> max_length, result |-> result, called |-> called]

NoNaming == Naming(<<>>, 0, <<>>, FALSE)

(* A directory reference given to SourceInfo: the number of parts of the   *)
(* resolved path and what the filesystem says of it.                       *)
Node(parts, exists, is_dir, readable) ==
    [parts |-> parts, exists |-> exists, is_dir |-> is_dir,
     is_file |-> exists /\ ~is_dir, readable |-> readable]

(* SourceInfo(path, name, date) called directly: the objects made so far   *)
(* and the last call, with the reason of the PathValidationError it raised *)
(* ("ok" when it raised nothing).                                          *)
Construction(made, calls, path, name, date, reason) ==
    [made |-> made, calls |-> calls, path |-> path, name |-> name, date |-> date,
     reason |-> reason]

NoConstruction == Construction(<<>>, 0, Node(0, FALSE, FALSE, FALSE), <<>>, NONE, "ok")

(* PhotoFlowGUI seen from its main thread: whether the Process button is   *)
(* enabled, the messages of the workers not yet processed, the sources of  *)
(* the manual-date dialogs that are open (the last one made holds the grab *)
(* while grab is true), and the worker threads started so far.  A worker   *)
(* is in its date loop ("dates") or in its loop over the projects, between *)
(* two calls ("projects") or inside create_project ("creating"), or has    *)
(* ended; i is the number of sources its loop has passed.                  *)
Window(btn_process, queue, dialogs, grab, workers) ==
    [btn_process |-> btn_process, queue |-> queue, dialogs |-> dialogs,
     grab |-> grab, workers |-> workers]

NoWindow == Window(TRUE, <<>>, <<>>, FALSE, <<>>)

Worker(at, i) == [at |-> at, i |-> i]

(***************************************************************************)
(* The two graphical front ends: the records of their state.               *)
(***************************************************************************)
(* PhotoFlowGUI: whether _stop_processing is set, and the number of        *)
(* sources the date loop of the worker has passed.                         *)
Gui(stop, detected, destroyed) == [stop |-> stop, detected |-> detected, destroyed |-> destroyed]

NoGui == Gui(FALSE, 0, FALSE)

(* PhotoProManagerGUI: the position of the process_sources thread, the     *)
(* cancel flag, the number of files of each source, the two threading      *)
(* settings, the number of sources handled, the index of the file loop,    *)
(* the state of each file of the current source, the sources whose         *)
(* project was begun, and whether a test of the flag found it set.         *)
Legacy(at, cancel_flag, folders, use_multithread, max_threads, handled, i, futures, started, observed) ==
    [pc |-> at, cancel_flag |-> cancel_flag, sources |-> folders,
     use_multithread |-> use_multithread, max_threads |-> max_threads,
     handled |-> handled, i |-> i, tasks |-> futures, started |-> started,
     observed |-> observed]

NoLegacy == Legacy("idle", FALSE, <<>>, FALSE, 0, 0, 0, <<>>, {}, FALSE)

(***************************************************************************)
(* Inputs.  A source file is a path (directory below the source, name)     *)
(* with what the filesystem says of it; copy_ok tells whether shutil.copy2 *)
(* of it runs to its end.                                                  *)
(***************************************************************************)
SrcFile(dir, stem, parts, exists, is_dir, is_file, readable, copy_ok) ==
    [path |-> [dir |-> dir, name |-> FileName(stem, IF is_dir THEN "" ELSE ".jpg")],
     parts |-> parts, exists |-> exists, is_dir |-> is_dir, is_file |-> is_file,
     readable |-> readable, copy_ok |-> copy_ok]

Photo == SrcFile("root", <<"photo">>, 4, TRUE, FALSE, TRUE, TRUE, TRUE)
SubPhoto == SrcFile("root/sub", <<"photo">>, 5, TRUE, FALSE, TRUE, TRUE, TRUE)
Photo1 == SrcFile("root", <<"photo", 1>>, 4, TRUE, FALSE, TRUE, TRUE, TRUE)
Gone == SrcFile("root", <<"gone">>, 4, FALSE, FALSE, FALSE, FALSE, FALSE)
Album == SrcFile("root", <<"album">>, 4, TRUE, TRUE, FALSE, TRUE, FALSE)
Locked == SrcFile("root", <<"locked">>, 4, TRUE, FALSE, TRUE, FALSE, FALSE)
Damaged == SrcFile("root", <<"damaged">>, 4, TRUE, FALSE, TRUE, TRUE, FALSE)
Deep == SrcFile("root/a/b/c/d/e/f/g", <<"deep">>, 11, TRUE, FALSE, TRUE, TRUE, TRUE)

GoodFiles == {Photo, SubPhoto, Photo1}
BadFiles == {Gone, Album, Locked, Damaged, Deep}

SeqsUpTo(S, n) == UNION {[1..k -> S] : k \in 0..n}

PoolSizes == {1, 2, MAX_WORKERS}

DestDir == << <<"dest">> >>

PhotoRange(dir, lo, hi) ==
    [parent |-> dir, stem |-> <<"photo">>, suffix |-> ".jpg", lo |-> lo, hi |-> hi]

NoTask == <<>>

NoCall == [pc |-> "idle", destination |-> NoPath, counter |-> 0, result |-> NoPath]

NoProject ==
    [source |-> 0, project_path |-> <<>>, contents |-> <<>>, source_size |-> 0,
     free |-> 0]

InitCopy ==
    /\ entry = "copy"
    /\ pc = "cfc_call"
    /\ sources = <<>> /\ autoDetect = FALSE /\ idx = 0 /\ cur = NoProject
    /\ results = <<>>
    /\ dirs = {}
    /\ fs = <<>>
    /\ destDir = DestDir
    /\ tasks = NoTask /\ cfResults = <<>> /\ rc = NoCall /\ scan = NoScan /\ exifHandler = NoCache
    /\ volume = NoVolume /\ naming = NoNaming
    /\ gui = NoGui /\ legacy = NoLegacy /\ progress = NoProgress
    /\ construction = NoConstruction /\ window = NoWindow
    /\ \/ /\ files \in SeqsUpTo(GoodFiles \cup BadFiles, MaxFiles - 1)
                       \cup [1..MaxFiles -> GoodFiles \cup {Gone, Damaged}]
          /\ pre \in {{}, {PhotoRange(DestDir, 0, 0)}}
          /\ maxWorkers \in PoolSizes
          /\ mkdirOk \in BOOLEAN
       \/ /\ files \in {<<Photo>>, <<Gone, Photo>>}
          /\ pre \in {{PhotoRange(DestDir, 0, CollisionLimit)},
                      {PhotoRange(DestDir, 0, CollisionLimit - 1)}}
          /\ maxWorkers = 1
          /\ mkdirOk = TRUE

NextCopy ==
    \/ CFC_Call
    \/ \E t \in Tasks : StartCopy(t)
    \/ \E t \in Tasks : ResolveStep(t)
    \/ \E t \in Tasks : CopyStep(t)
    \/ \E t \in Tasks : Collect(t)
    \/ CFC_Return

SpecCopy == InitCopy /\ [][NextCopy]_vars

(***************************************************************************)
(* copy_files_concurrent called directly with a progress callback.         *)
(***************************************************************************)
ProgressFiles == {Photo, Gone, Damaged}

InitProgress ==
    /\ entry = "copy"
    /\ pc = "cfc_call"
    /\ sources = <<>> /\ autoDetect = FALSE /\ idx = 0 /\ cur = NoProject
    /\ results = <<>>
    /\ dirs = {}
    /\ fs = <<>>
    /\ pre = {}
    /\ destDir = DestDir
    /\ tasks = NoTask /\ cfResults = <<>> /\ rc = NoCall /\ scan = NoScan /\ exifHandler = NoCache
    /\ volume = NoVolume /\ naming = NoNaming
    /\ gui = NoGui /\ legacy = NoLegacy
    /\ files \in SeqsUpTo(ProgressFiles, MaxFiles)
    /\ maxWorkers \in PoolSizes
    /\ mkdirOk \in BOOLEAN
    /\ progress = Progress(TRUE, FALSE, <<>>, <<>>, 0, <<>>, 0)
    /\ construction = NoConstruction /\ window = NoWindow

NextProgress ==
    \/ CFC_Call
    \/ \E t \in Tasks : StartCopy(t)
    \/ \E t \in Tasks : ResolveStep(t)
    \/ \E t \in Tasks : CopyStep(t)
    \/ AsCompleted
    \/ \E t \in Tasks : Collect(t)
    \/ CallbackReturns
    \/ CFC_Return

SpecProgress == InitProgress /\ [][NextProgress]_vars

(***************************************************************************)
(* copy_files_concurrent on a filesystem whose calls may block for ever.   *)
(* The pool threads and the calling thread are operating-system threads:   *)
(* each one that can take a step eventually takes it.  Nothing obliges a   *)
(* filesystem call to hang.                                                *)
(***************************************************************************)
TerminateFiles == {Photo, Gone}

InitTerminate ==
    /\ entry = "copy"
    /\ pc = "cfc_call"
    /\ sources = <<>> /\ autoDetect = FALSE /\ idx = 0 /\ cur = NoProject
    /\ results = <<>>
    /\ dirs = {}
    /\ fs = <<>>
    /\ pre = {PhotoRange(DestDir, 0, 0)}
    /\ destDir = DestDir
    /\ tasks = NoTask /\ cfResults = <<>> /\ rc = NoCall /\ scan = NoScan /\ exifHandler = NoCache
    /\ volume = NoVolume /\ naming = NoNaming
    /\ gui = NoGui /\ legacy = NoLegacy
    /\ files \in SeqsUpTo(TerminateFiles, MaxFiles)
    /\ maxWorkers \in {1, 2}
    /\ mkdirOk \in BOOLEAN
    /\ \E callback \in BOOLEAN :
          progress = Progress(callback, FALSE, <<>>, <<>>, 0, <<>>, 0)
    /\ construction = NoConstruction /\ window = NoWindow

NextTerminate ==
    \/ CFC_Call
    \/ \E t \in Tasks : StartCopy(t)
    \/ \E t \in Tasks : ResolveStep(t)
    \/ \E t \in Tasks : CopyStep(t)
    \/ \E t \in Tasks : Hang(t)
    \/ AsCompleted
    \/ \E t \in Tasks : Collect(t)
    \/ CallbackReturns
    \/ CFC_Return

SpecTerminate ==
    /\ InitTerminate
    /\ [][NextTerminate]_vars
    /\ WF_vars(CFC_Call)
    /\ \A t \in 1..MaxFiles : WF_vars(t \in Tasks /\ StartCopy(t))
    /\ \A t \in 1..MaxFiles : WF_vars(t \in Tasks /\ ResolveStep(t))
    /\ \A t \in 1..MaxFiles : WF_vars(t \in Tasks /\ CopyStep(t))
    /\ WF_vars(AsCompleted)
    /\ \A t \in 1..MaxFiles : WF_vars(t \in Tasks /\ Collect(t))
    /\ WF_vars(CallbackReturns)
    /\ WF_vars(CFC_Return)

(***************************************************************************)
(* find_earliest_date called directly on a directory.                      *)
(***************************************************************************)
(* Datetimes and directory entries of the scans.                           *)
T1 == DateTime(2023, 12, 31, 0)
T2 == DateTime(2023, 12, 31, 1)
T3 == DateTime(2024, 1, 1, 0)

Dated(t) == DirEntry(TRUE, ".jpg", Image("ok", TRUE, TRUE, TRUE, t))
Raw(t) == DirEntry(TRUE, ".CR2", Image("ok", TRUE, TRUE, TRUE, t))
NoExif == DirEntry(TRUE, ".jpg", Image("ok", FALSE, FALSE, FALSE, T1))
BadDate == DirEntry(TRUE, ".jpg", Image("ok", TRUE, TRUE, FALSE, T1))
Broken == DirEntry(TRUE, ".jpg", Image("ioerror", FALSE, FALSE, FALSE, T1))
Text == DirEntry(TRUE, ".txt", Image("unidentified", FALSE, FALSE, FALSE, T1))
SubDir == DirEntry(FALSE, ".jpg", Image("ioerror", FALSE, FALSE, FALSE, T1))

DirEntries == {Dated(T1), Dated(T2), Raw(T3), NoExif, BadDate, Broken, Text, SubDir}

MaxScan == 3

InitScan ==
    /\ entry = "scan"
    /\ pc = "idle"
    /\ sources = <<>> /\ autoDetect = FALSE /\ idx = 0 /\ cur = NoProject
    /\ results = <<>>
    /\ dirs = {} /\ pre = {} /\ fs = <<>>
    /\ maxWorkers = 1 /\ mkdirOk = TRUE
    /\ files = <<>> /\ destDir = <<>> /\ tasks = NoTask /\ cfResults = <<>>
    /\ rc = NoCall /\ exifHandler = NoCache
    /\ volume = NoVolume /\ naming = NoNaming
    /\ gui = NoGui /\ legacy = NoLegacy /\ progress = NoProgress
    /\ construction = NoConstruction /\ window = NoWindow
    /\ \E listing \in SeqsUpTo(DirEntries, MaxScan), callback \in BOOLEAN :
         scan = Scan("scan", listing, callback, 0, Nothing, 0, 0, <<>>, Nothing)

NextScan == FE_Visit \/ FE_Return

SpecScan == InitScan /\ [][NextScan]_vars

(***************************************************************************)
(* extract_date, clear_cache and cache_info called on one handler.         *)
(***************************************************************************)
EXIF_CACHE_SIZE == 128

MaxPaths == 3
MaxCalls == 5

(* extract_date(image_path)                                                *)
ExtractDate(image_path) ==
    /\ entry = "cache"
    /\ exifHandler.steps < MaxCalls
    /\ LET key == Resolve(image_path)
           o == CachedCall(exifHandler.cache, key, exifHandler.disk[key])
           step == exifHandler.steps + 1
       IN  exifHandler' = Handler(
               o.cache, exifHandler.disk, step, exifHandler.lookups + 1,
               IF o.opened THEN Put(exifHandler.reads, key, Get(exifHandler.reads, key) + 1)
               ELSE exifHandler.reads,
               IF o.opened THEN Put(exifHandler.opens, key, Get(exifHandler.opens, key) + 1)
               ELSE exifHandler.opens,
               IF o.outcome = "error"
               THEN Put(exifHandler.errors, key, Get(exifHandler.errors, key) + 1)
               ELSE exifHandler.errors,
               IF o.evicted # 0
               THEN Put(exifHandler.evicted, o.evicted, Get(exifHandler.evicted, o.evicted) + 1)
               ELSE exifHandler.evicted,
               IF o.opened /\ o.outcome # "error" THEN Put(exifHandler.seen, key, o.result)
               ELSE exifHandler.seen,
               IF o.outcome # "error" THEN Put(exifHandler.used, key, step) ELSE exifHandler.used,
               Operation("extract", image_path, key \in Keys(exifHandler.cache.entries),
                         IF key \in DOMAIN exifHandler.seen THEN exifHandler.seen[key] ELSE Nothing,
                         o.outcome, o.result, o.evicted, o.opened))
    /\ UNCHANGED <<entry, copierVars, volume, naming, gui, legacy>>

(* clear_cache()                                                           *)
ClearCache ==
    /\ entry = "cache"
    /\ exifHandler.steps < MaxCalls
    /\ exifHandler' = Handler(CacheClear(exifHandler.cache), exifHandler.disk, exifHandler.steps + 1, 0,
                       <<>>, exifHandler.opens, <<>>, <<>>, <<>>, <<>>,
                       Operation("clear", ImagePath(0, FALSE), FALSE, Nothing,
                                 "none", Nothing, 0, FALSE))
    /\ UNCHANGED <<entry, copierVars, volume, naming, gui, legacy>>

(* Another program rewrites the first image with a new capture date.       *)
FileRewritten ==
    /\ entry = "cache"
    /\ exifHandler.steps < MaxCalls
    /\ exifHandler.disk[1] = Dated(T1).image
    /\ exifHandler' = [exifHandler EXCEPT !.disk[1] = Dated(T2).image, !.steps = @ + 1]
    /\ UNCHANGED <<entry, copierVars, volume, naming, gui, legacy>>

(* The images on the disk: a dated one, one without EXIF data, one that    *)
(* cannot be opened, and so on; the fillers hold no EXIF data.             *)
ImageOf(file) ==
    CASE file % 3 = 1 -> Dated(T1).image
      [] file % 3 = 2 -> NoExif.image
      [] OTHER -> Broken.image

Fillers == 1001..(1000 + EXIF_CACHE_SIZE - 1)

CachePaths ==
    {ImagePath(f, FALSE) : f \in 1..MaxPaths}
    \cup {ImagePath(1, TRUE), ImagePath(1001, FALSE)}

(* A handler on which nothing was called yet, with the given cache_size.   *)
Fresh(cache_size) ==
    Handler(Lru(cache_size, <<>>, 0, 0),
            [f \in (1..MaxPaths) \cup Fillers |-> IF f > 1000 THEN NoExif.image
                                                 ELSE ImageOf(f)],
            0, 0, <<>>, <<>>, <<>>, <<>>, <<>>, <<>>, NoOperation)

(* The default handler after extract_date on each of the fillers in turn:  *)
(* one entry short of full.                                                *)
Filled ==
    Handler(Lru(EXIF_CACHE_SIZE,
                [i \in 1..(EXIF_CACHE_SIZE - 1) |-> [key |-> 1000 + i, value |-> Nothing]],
                0, EXIF_CACHE_SIZE - 1),
            Fresh(EXIF_CACHE_SIZE).disk,
            0, EXIF_CACHE_SIZE - 1,
            [f \in Fillers |-> 1], [f \in Fillers |-> 1], <<>>, <<>>,
            [f \in Fillers |-> Nothing], [f \in Fillers |-> f - 2000],
            Operation("extract", ImagePath(1000 + EXIF_CACHE_SIZE - 1, FALSE), FALSE,
                      Nothing, "miss", Nothing, 0, TRUE))

InitCache ==
    /\ entry = "cache"
    /\ pc = "idle"
    /\ sources = <<>> /\ autoDetect = FALSE /\ idx = 0 /\ cur = NoProject
    /\ results = <<>>
    /\ dirs = {} /\ pre = {} /\ fs = <<>>
    /\ maxWorkers = 1 /\ mkdirOk = TRUE
    /\ files = <<>> /\ destDir = <<>> /\ tasks = NoTask /\ cfResults = <<>>
    /\ rc = NoCall /\ scan = NoScan
    /\ exifHandler \in {Fresh(0), Fresh(1), Fresh(2), Fresh(EXIF_CACHE_SIZE), Filled}
    /\ volume = NoVolume /\ naming = NoNaming
    /\ gui = NoGui /\ legacy = NoLegacy /\ progress = NoProgress
    /\ construction = NoConstruction /\ window = NoWindow

NextCache ==
    \/ \E image_path \in CachePaths : ExtractDate(image_path)
    \/ ClearCache
    \/ FileRewritten

SpecCache == InitCache /\ [][NextCache]_vars

(***************************************************************************)
(* sanitize_filename, on a name given as its sequence of characters.       *)
(***************************************************************************)
InvalidChars == {"<", ">", ":", "\"", "/", "\\", "|", "?", "*"}

StripChars == {".", " "}

Unnamed == <<"u", "n", "n", "a", "m", "e", "d">>

Strip(s) ==
    LET keep == {i \in 1..Len(s) : s[i] \notin StripChars}
    IN  IF keep = {} THEN <<>>
        ELSE SubSeq(s, CHOOSE i \in keep : \A j \in keep : i <= j,
                       CHOOSE i \in keep : \A j \in keep : i >= j)

(* A sanitizer without the fallback to the placeholder name.               *)
SanitizeFilenameNoFallback(name, max_length) ==
    LET replaced == [i \in 1..Len(name) |->
                        IF name[i] \in InvalidChars THEN "_" ELSE name[i]]
        stripped == Strip(replaced)
    IN  IF Len(stripped) > max_length THEN SubSeq(stripped, 1, max_length)
        ELSE stripped

(* A sanitizer that cuts a name as soon as it reaches the maximum length.  *)
SanitizeFilenameShort(name, max_length) ==
    LET replaced == [i \in 1..Len(name) |->
                        IF name[i] \in InvalidChars THEN "_" ELSE name[i]]
        stripped == Strip(replaced)
        named == IF stripped = <<>> THEN Unnamed ELSE stripped
    IN  IF Len(named) >= max_length /\ max_length > 0
        THEN SubSeq(named, 1, max_length - 1) ELSE named

(* sanitize_filename(name, max_length)                                     *)
SanitizeFilename(name, max_length) ==
    LET replaced == [i \in 1..Len(name) |->
                        IF name[i] \in InvalidChars THEN "_" ELSE name[i]]
        stripped == Strip(replaced)
        named == IF stripped = <<>> THEN Unnamed ELSE stripped
    IN  IF Len(named) > max_length THEN SubSeq(named, 1, max_length) ELSE named

(***************************************************************************)
(* sanitize_filename called directly.                                      *)
(***************************************************************************)
MaxName == 3
MaxCut == 2

(* The characters of the names: a letter, the two characters strip()      *)
(* removes, a tab, two of the characters the pattern replaces, and the     *)
(* replacement character.                                                  *)
Alphabet == {"a", ".", " ", "\t", "/", "*", "_"}

(* Names longer than the default maximum length.                           *)
LongNames ==
    {[i \in 1..(MAX_FILENAME_LENGTH + 1) |-> "a"],
     [i \in 1..(MAX_FILENAME_LENGTH + 1) |-> "?"],
     [i \in 1..(MAX_FILENAME_LENGTH + 1) |->
         IF i = MAX_FILENAME_LENGTH THEN "." ELSE "a"]}

FileNames == SeqsUpTo(Alphabet, MaxName) \cup LongNames

MaxLengths == (0..MaxCut) \cup {MAX_FILENAME_LENGTH}

(* sanitize_filename(name, max_length)                                     *)
Sanitize ==
    /\ entry = "sanitize"
    /\ ~naming.called
    /\ naming' = Naming(naming.name, naming.max_length,
                        SanitizeFilename(naming.name, naming.max_length), TRUE)
    /\ UNCHANGED <<entry, copierVars, exifHandler, volume, gui, legacy>>

InitSanitize ==
    /\ entry = "sanitize"
    /\ pc = "idle"
    /\ sources = <<>> /\ autoDetect = FALSE /\ idx = 0 /\ cur = NoProject
    /\ results = <<>> /\ dirs = {} /\ pre = {} /\ fs = <<>>
    /\ maxWorkers = 1 /\ mkdirOk = TRUE /\ files = <<>>
    /\ destDir = <<>> /\ tasks = NoTask /\ cfResults = <<>>
    /\ rc = NoCall /\ scan = NoScan /\ exifHandler = NoCache /\ volume = NoVolume
    /\ gui = NoGui /\ legacy = NoLegacy /\ progress = NoProgress
    /\ construction = NoConstruction /\ window = NoWindow
    /\ \E name \in FileNames, max_length \in MaxLengths :
         naming = Naming(name, max_length, <<>>, FALSE)

NextSanitize == Sanitize

SpecSanitize == InitSanitize /\ [][NextSanitize]_vars

(***************************************************************************)
(* create_project_structure: the directories it makes under base_path.     *)
(***************************************************************************)
PROJECT_STRUCTURE ==
    << [folder |-> <<"01_PRE-PRODUCTION">>,
        subfolders |-> << <<"Moodboard">>, <<"References">>, <<"Brief">> >>],
       [folder |-> <<"02_RAW">>, subfolders |-> <<>>],
       [folder |-> <<"03_SELECTS">>, subfolders |-> <<>>],
       [folder |-> <<"04_RETOUCHE">>, subfolders |-> << <<"PSD">>, <<"FINALS">> >>],
       [folder |-> <<"05_VIDEO">>, subfolders |-> << <<"RUSH">>, <<"FINALS">> >>],
       [folder |-> <<"06_ADMIN">>, subfolders |-> << <<"Factures">>, <<"Contrats">> >>] >>

PROJECT_ROOT_DIR == <<"PROJETS_PHOTO">>

ProjectPath(base_path, project_name) ==
    Append(base_path, SanitizeFilename(project_name, MAX_FILENAME_LENGTH))

StructureDirs(project_path, structure) ==
    Ancestors(project_path)
    \cup {Append(project_path, structure[i].folder) : i \in 1..Len(structure)}
    \cup UNION {{Append(Append(project_path, structure[i].folder),
                        structure[i].subfolders[j]) :
                    j \in 1..Len(structure[i].subfolders)} :
                i \in 1..Len(structure)}

(***************************************************************************)
(* PhotoFlowManager.                                                       *)
(***************************************************************************)
SourceInfo(path, name, date) == [path |-> path, name |-> name, date |-> date]

ProjectResult(source, project_path, copy_results, success, error) ==
    [source |-> source, project_path |-> project_path,
     copy_results |-> copy_results, success |-> success, error |-> error]

(* The three counting properties of ProjectResult, each a sum of 1 over    *)
(* the copy results that pass its test.                                    *)
RECURSIVE Successes(_)
Successes(copy_results) ==
    IF copy_results = <<>> THEN 0
    ELSE (IF Head(copy_results).success THEN 1 ELSE 0) + Successes(Tail(copy_results))

RECURSIVE Failures(_)
Failures(copy_results) ==
    IF copy_results = <<>> THEN 0
    ELSE (IF ~Head(copy_results).success THEN 1 ELSE 0) + Failures(Tail(copy_results))

RECURSIVE Renamings(_)
Renamings(copy_results) ==
    IF copy_results = <<>> THEN 0
    ELSE (IF Head(copy_results).renamed THEN 1 ELSE 0) + Renamings(Tail(copy_results))

(* A files_copied that leaves out the renamed copies.                      *)
FilesCopiedNotRenamed(result) == Successes(result.copy_results) - Renamings(result.copy_results)

FilesCopied(result) == Successes(result.copy_results)

FilesFailed(result) == Failures(result.copy_results)

FilesRenamed(result) == Renamings(result.copy_results)

Date2023 == <<"2", "0", "2", "3", "-", "1", "2", "-", "3", "1">>
Date2024 == <<"2", "0", "2", "4", "-", "0", "1", "-", "0", "1">>

(* source.date.split("-")[0] *)
Year(date) ==
    LET dashes == {i \in 1..Len(date) : date[i] = "-"}
    IN  IF dashes = {} THEN date
        ELSE SubSeq(date, 1, (CHOOSE i \in dashes : \A j \in dashes : i <= j) - 1)

(* What rglob finds under a source directory.                              *)
SourceContents ==
    {<<>>, <<Photo>>, <<Photo, SubPhoto>>, <<Locked, Photo>>, <<Damaged>>}

Current == idx + 1

(* detect_date: the earliest datetime of the source directory as an ISO    *)
(* date, or None.                                                          *)
DetectDate(listing) ==
    LET earliest_date == FindEarliestDate(listing, FALSE)
    IN  IF earliest_date # Nothing THEN Strftime(earliest_date[1]) ELSE NONE

(* The find_earliest_date call of detect_date, once it has returned.       *)
Detection(listing) == ScanFrom(Scan("scan", listing, FALSE, 0, Nothing, 0, 0, <<>>, Nothing))

(* What the date scan finds in a source directory.                         *)
DetectListings == {<<>>, <<NoExif, Broken, Text>>, <<Raw(T3), Dated(T1)>>}

(* The create_project call in progress or just over: its source, what the  *)
(* source directory and the destination drive held, its project_path.      *)
Project(source, project_path, contents, source_size, free) ==
    [source |-> source, project_path |-> project_path, contents |-> contents,
     source_size |-> source_size, free |-> free]

Failed(error) == ProjectResult(Current, <<>>, <<>>, FALSE, error)

(* A loop that hands a source without a date to create_project all the    *)
(* same.                                                                   *)
PMS_NextNoSkip ==
    /\ pc = "pms_loop"
    /\ idx < Len(sources)
    /\ IF autoDetect /\ sources[Current].date = NONE
       THEN \E listing \in DetectListings :
              sources' = [sources EXCEPT ![Current].date = DetectDate(listing)]
       ELSE UNCHANGED sources
    /\ pc' = "create_project"
    /\ cur' = NoProject
    /\ UNCHANGED <<entry, autoDetect, idx, results, dirs, pre, fs, maxWorkers,
                   mkdirOk, files, destDir, tasks, cfResults, rc, scan,
                   exifHandler, volume, naming, gui, legacy, progress, construction, window>>

(* A loop that skips a source without a date and records nothing for it.   *)
PMS_NextSkipSilently ==
    /\ pc = "pms_loop"
    /\ idx < Len(sources)
    /\ IF autoDetect /\ sources[Current].date = NONE
       THEN \E listing \in DetectListings :
            LET found == DetectDate(listing)
            IN
              /\ sources' = [sources EXCEPT ![Current].date = found]
              /\ IF found = NONE
                 THEN /\ idx' = idx + 1
                      /\ pc' = "pms_loop"
                      /\ UNCHANGED results
                 ELSE /\ pc' = "create_project"
                      /\ UNCHANGED <<results, idx>>
       ELSE /\ pc' = "create_project"
            /\ UNCHANGED <<sources, results, idx>>
    /\ cur' = NoProject
    /\ UNCHANGED <<entry, autoDetect, dirs, pre, fs, maxWorkers, mkdirOk,
                   files, destDir, tasks, cfResults, rc, scan,
                   exifHandler, volume, naming, gui, legacy, progress, construction, window>>

(* A loop that detects the date of every source when auto_detect_dates is   *)
(* set, whether or not the source has one.                                  *)
PMS_NextAlwaysDetects ==
    /\ pc = "pms_loop"
    /\ idx < Len(sources)
    /\ IF autoDetect
       THEN \E listing \in DetectListings :
            LET found == DetectDate(listing)
            IN
              /\ sources' = [sources EXCEPT ![Current].date = found]
              /\ scan' = Detection(listing)
              /\ IF found = NONE
                 THEN /\ results' = Append(results, Failed("No date available"))
                      /\ idx' = idx + 1
                      /\ pc' = "pms_loop"
                 ELSE /\ pc' = "create_project"
                      /\ UNCHANGED <<results, idx>>
       ELSE /\ pc' = "create_project"
            /\ UNCHANGED <<sources, results, idx, scan>>
    /\ cur' = NoProject
    /\ UNCHANGED <<entry, autoDetect, dirs, pre, fs, maxWorkers, mkdirOk,
                   files, destDir, tasks, cfResults, rc,
                   exifHandler, volume, naming, gui, legacy, progress, construction, window>>

(* process_multiple_sources: the head of one loop turn, with the date      *)
(* detection of a source that has no date.                                 *)
PMS_Next ==
    /\ pc = "pms_loop"
    /\ idx < Len(sources)
    /\ IF autoDetect /\ sources[Current].date = NONE
       THEN \E listing \in DetectListings :
            LET found == DetectDate(listing)
            IN
              /\ sources' = [sources EXCEPT ![Current].date = found]
              /\ scan' = Detection(listing)
              /\ IF found = NONE
                 THEN /\ results' = Append(results, Failed("No date available"))
                      /\ idx' = idx + 1
                      /\ pc' = "pms_loop"
                 ELSE /\ pc' = "create_project"
                      /\ UNCHANGED <<results, idx>>
       ELSE /\ pc' = "create_project"
            /\ UNCHANGED <<sources, results, idx, scan>>
    /\ cur' = NoProject
    /\ UNCHANGED <<entry, autoDetect, dirs, pre, fs, maxWorkers, mkdirOk,
                   files, destDir, tasks, cfResults, rc,
                   exifHandler, volume, naming, gui, legacy, progress, construction, window>>

(* A space check that asks for the size of the source only.              *)
InsufficientSpaceNoMargin(free, source_size) == free < source_size

(* The space check: available_gb < required_gb, required being 1.2 times  *)
(* the size of the source.                                                 *)
InsufficientSpace(free, source_size) == 5 * free < 6 * source_size

MkdirError == "Permission denied"
DateNotSet == "Date not set for source"
InsufficientDiskSpace == "Insufficient disk space"
StructureFailed == "Failed to create project structure"
ListingError == "Input/output error"

(* create_project that makes the project structure before it checks the    *)
(* space.                                                                  *)
PrepareStructureFirst(source, existing, source_size, free, mk) ==
    LET base_path == <<PROJECT_ROOT_DIR, Year(source.date)>>
        project_folder_name == source.date \o <<"_">> \o source.name
        project_path == ProjectPath(base_path, project_folder_name)
    IN  IF source.date = NONE
        THEN [error |-> DateNotSet, made |-> {}, project_path |-> <<>>]
        ELSE IF mk = "base" /\ base_path \notin existing
        THEN [error |-> MkdirError, made |-> {}, project_path |-> <<>>]
        ELSE IF mk = "project" /\ project_path \notin existing
        THEN [error |-> StructureFailed, made |-> Ancestors(base_path),
              project_path |-> <<>>]
        ELSE IF InsufficientSpace(free, source_size)
        THEN [error |-> InsufficientDiskSpace,
              made |-> StructureDirs(project_path, PROJECT_STRUCTURE),
              project_path |-> <<>>]
        ELSE [error |-> NONE,
              made |-> StructureDirs(project_path, PROJECT_STRUCTURE),
              project_path |-> project_path]

(* create_project up to the call of organize_files, on a drive where the   *)
(* directories existing are there: date check, mkdir of the year           *)
(* directory, space check, create_project_structure.  The outcome is the   *)
(* message of the exception raised (None if none), the directories made    *)
(* and project_path.                                                       *)
Prepare(source, existing, source_size, free, mk) ==
    LET base_path == <<PROJECT_ROOT_DIR, Year(source.date)>>
        project_folder_name == source.date \o <<"_">> \o source.name
        project_path == ProjectPath(base_path, project_folder_name)
    IN  IF source.date = NONE
        THEN [error |-> DateNotSet, made |-> {}, project_path |-> <<>>]
        ELSE IF mk = "base" /\ base_path \notin existing
        THEN [error |-> MkdirError, made |-> {}, project_path |-> <<>>]
        ELSE IF InsufficientSpace(free, source_size)
        THEN [error |-> InsufficientDiskSpace, made |-> Ancestors(base_path),
              project_path |-> <<>>]
        ELSE IF mk = "project" /\ project_path \notin existing
        THEN [error |-> StructureFailed, made |-> Ancestors(base_path),
              project_path |-> <<>>]
        ELSE [error |-> NONE,
              made |-> StructureDirs(project_path, PROJECT_STRUCTURE),
              project_path |-> project_path]

(* create_project up to the call of organize_files.  Any exception ends    *)
(* the call with a failed ProjectResult, which process_multiple_sources    *)
(* appends.                                                                *)
CP_Prepare ==
    /\ pc = "create_project"
    /\ \E contents \in SourceContents, margin \in {5, 6}, mk \in {"ok", "base", "project"} :
         LET source_size == 5 * Len(contents)
             free == margin * Len(contents)
             r == Prepare(sources[Current], dirs, source_size, free, mk)
         IN  /\ dirs' = dirs \cup r.made
             /\ cur' = Project(Current, r.project_path, contents, source_size, free)
             /\ IF r.error # NONE
                THEN /\ results' = Append(results, Failed(r.error))
                     /\ idx' = idx + 1
                     /\ pc' = "pms_loop"
                ELSE /\ pc' = "organize"
                     /\ UNCHANGED <<results, idx>>
    /\ UNCHANGED <<entry, sources, autoDetect, pre, fs, maxWorkers, mkdirOk,
                   files, destDir, tasks, cfResults, rc, scan,
                   exifHandler, volume, naming, gui, legacy, progress, construction, window>>

(* organize_files whose directory walk error leaves create_project.        *)
OrganizeRaises ==
    /\ pc = "organize"
    /\ \E listed \in BOOLEAN :
         IF listed
         THEN /\ files' = cur.contents
              /\ destDir' = Append(cur.project_path, <<"02_RAW">>)
              /\ cfResults' = <<>>
              /\ tasks' = NoTask
              /\ pc' = IF cur.contents = <<>> THEN "copy_done" ELSE "cfc_call"
         ELSE /\ pc' = "raised"
              /\ UNCHANGED <<files, destDir, cfResults, tasks>>
    /\ UNCHANGED <<entry, sources, autoDetect, idx, cur, results, dirs, pre, fs,
                   maxWorkers, mkdirOk, rc, scan,
                   exifHandler, volume, naming, gui, legacy, progress, construction, window>>

(* organize_files: the files are collected; none found returns [].  An     *)
(* error of the directory walk is an exception of the copier, which        *)
(* create_project turns into a failed ProjectResult.                       *)
Organize ==
    /\ pc = "organize"
    /\ \E listed \in BOOLEAN :
         IF listed
         THEN /\ files' = cur.contents
              /\ destDir' = Append(cur.project_path, <<"02_RAW">>)
              /\ cfResults' = <<>>
              /\ tasks' = NoTask
              /\ pc' = IF cur.contents = <<>> THEN "copy_done" ELSE "cfc_call"
              /\ UNCHANGED <<results, idx>>
         ELSE /\ results' = Append(results, Failed(ListingError))
              /\ idx' = idx + 1
              /\ pc' = "pms_loop"
              /\ UNCHANGED <<files, destDir, cfResults, tasks>>
    /\ UNCHANGED <<entry, sources, autoDetect, cur, dirs, pre, fs,
                   maxWorkers, mkdirOk, rc, scan,
                   exifHandler, volume, naming, gui, legacy, progress, construction, window>>

AnySuccess(copy_results) == \E i \in 1..Len(copy_results) : copy_results[i].success

(* A create_project that reports success whenever it got as far as        *)
(* copying.                                                                *)
CP_FinishAlwaysSuccess ==
    /\ pc = "copy_done"
    /\ entry \in {"batch", "gui"}
    /\ results' = Append(results,
            ProjectResult(cur.source, cur.project_path, cfResults, TRUE, NONE))
    /\ idx' = idx + 1
    /\ pc' = "pms_loop"
    /\ UNCHANGED <<entry, sources, autoDetect, cur, dirs, pre, fs, maxWorkers,
                   mkdirOk, files, destDir, tasks, cfResults, rc, scan,
                   exifHandler, volume, naming, gui, legacy, progress, construction, window>>

(* create_project after organize_files, and the append of its result.      *)
CP_Finish ==
    /\ pc = "copy_done"
    /\ entry \in {"batch", "gui"}
    /\ results' = Append(results,
            ProjectResult(cur.source, cur.project_path, cfResults,
                          AnySuccess(cfResults), NONE))
    /\ idx' = idx + 1
    /\ pc' = "pms_loop"
    /\ UNCHANGED <<entry, sources, autoDetect, cur, dirs, pre, fs, maxWorkers,
                   mkdirOk, files, destDir, tasks, cfResults, rc, scan,
                   exifHandler, volume, naming, gui, legacy, progress, construction, window>>

(* The loop is over: the summary is logged and the list returned.          *)
PMS_Return ==
    /\ pc = "pms_loop"
    /\ idx = Len(sources)
    /\ pc' = "pms_done"
    /\ UNCHANGED <<entry, sources, autoDetect, idx, cur, results, dirs, pre, fs,
                   maxWorkers, mkdirOk, files, destDir, tasks, cfResults, rc, scan,
                   exifHandler, volume, naming, gui, legacy, progress, construction, window>>

(* The pool of the manager's FileManager: one worker, or the default.      *)
BatchPoolSizes == {1, MAX_WORKERS}

SourceDirs == {"root"}

SourceNames == {<<"W">>}

Init ==
    /\ entry = "batch"
    /\ pc = "pms_loop"
    /\ \E n \in 1..MaxSources :
         sources \in [1..n -> {SourceInfo(d, nm, dt) : d \in SourceDirs,
                                  nm \in SourceNames, dt \in {NONE, Date2023, Date2024}}]
    /\ autoDetect \in BOOLEAN
    /\ idx = 0 /\ cur = NoProject /\ results = <<>>
    /\ dirs = {} /\ pre = {} /\ fs = <<>>
    /\ maxWorkers \in BatchPoolSizes
    /\ mkdirOk = TRUE
    /\ files = <<>> /\ destDir = <<>> /\ tasks = NoTask /\ cfResults = <<>>
    /\ rc = NoCall /\ scan = NoScan /\ exifHandler = NoCache
    /\ volume = NoVolume /\ naming = NoNaming
    /\ gui = NoGui /\ legacy = NoLegacy /\ progress = NoProgress
    /\ construction = NoConstruction /\ window = NoWindow

Next ==
    \/ PMS_Next
    \/ CP_Prepare
    \/ Organize
    \/ CFC_Call
    \/ \E t \in Tasks : StartCopy(t)
    \/ \E t \in Tasks : ResolveStep(t)
    \/ \E t \in Tasks : CopyStep(t)
    \/ \E t \in Tasks : Collect(t)
    \/ CFC_Return
    \/ CP_Finish
    \/ PMS_Return

Spec == Init /\ [][Next]_vars

(***************************************************************************)
(* create_project_structure on a drive where a mkdir can fail.             *)
(***************************************************************************)
EEXIST == "File exists"
ENOENT == "No such file or directory"
ENOTDIR == "Not a directory"
EACCES == "Permission denied"
ENOSPC == "No space left on device"

Parent(path) == SubSeq(path, 1, Len(path) - 1)

IsDir(d, path) == path = <<>> \/ path \in d.directories

(* os.mkdir(path): one directory is made in an existing, writable parent.  *)
OsMkdir(d, path) ==
    IF IsDir(d, path) \/ path \in d.regular
    THEN [drive |-> d, error |-> EEXIST]
    ELSE IF \E a \in Ancestors(Parent(path)) : a \in d.regular
    THEN [drive |-> d, error |-> ENOTDIR]
    ELSE IF ~IsDir(d, Parent(path))
    THEN [drive |-> d, error |-> ENOENT]
    ELSE IF Parent(path) \in d.readonly
    THEN [drive |-> d, error |-> EACCES]
    ELSE IF d.room = 0
    THEN [drive |-> d, error |-> ENOSPC]
    ELSE [drive |-> [d EXCEPT !.directories = @ \cup {path}, !.room = @ - 1],
          error |-> NONE]

(* A mkdir that raises on a directory that exists, whatever exist_ok.      *)
RECURSIVE MkdirStrict(_, _, _, _)
MkdirStrict(d, path, parents, exist_ok) ==
    LET r == OsMkdir(d, path)
    IN  IF r.error = ENOENT
        THEN IF ~parents \/ path = <<>> THEN r
             ELSE LET up == MkdirStrict(d, Parent(path), TRUE, TRUE)
                  IN  IF up.error # NONE /\ up.error # EEXIST THEN up
                      ELSE MkdirStrict(up.drive, path, FALSE, exist_ok)
        ELSE r

(* Path.mkdir(parents, exist_ok): the missing parents are made first; a    *)
(* directory that exists is no error with exist_ok.                        *)
RECURSIVE Mkdir(_, _, _, _)
Mkdir(d, path, parents, exist_ok) ==
    LET r == OsMkdir(d, path)
    IN  IF r.error = ENOENT
        THEN IF ~parents \/ path = <<>> THEN r
             ELSE LET up == Mkdir(d, Parent(path), TRUE, TRUE)
                  IN  IF up.error # NONE THEN up
                      ELSE Mkdir(up.drive, path, FALSE, exist_ok)
        ELSE IF r.error # NONE /\ exist_ok /\ IsDir(d, path)
        THEN [drive |-> d, error |-> NONE]
        ELSE r

(* A template whose nested entries are not made.                           *)
TargetsTopLevel(project_path, structure) ==
    [i \in 1..Len(structure) |-> Append(project_path, structure[i].folder)]

(* The directories of the two loops, in the order of their mkdir calls.    *)
RECURSIVE Targets(_, _)
Targets(project_path, structure) ==
    IF structure = <<>> THEN <<>>
    ELSE LET folder_path == Append(project_path, Head(structure).folder)
             subfolders == Head(structure).subfolders
         IN  <<folder_path>>
             \o [j \in 1..Len(subfolders) |-> Append(folder_path, subfolders[j])]
             \o Targets(project_path, Tail(structure))

(* The mkdir calls of the try block, up to the first that raises.          *)
RECURSIVE MakeAll(_, _, _)
MakeAll(d, targets, attempted) ==
    IF targets = <<>> THEN [drive |-> d, error |-> NONE, attempted |-> attempted]
    ELSE LET r == Mkdir(d, Head(targets), TRUE, TRUE)
         IN  IF r.error # NONE
             THEN [drive |-> r.drive, error |-> r.error,
                   attempted |-> Append(attempted, Head(targets))]
             ELSE MakeAll(r.drive, Tail(targets), Append(attempted, Head(targets)))

(* str(ProjectStructureError): the project path and the text of the OS     *)
(* error.                                                                  *)
StructureMessage(project_path, reason) ==
    <<"Failed to create project structure at", project_path, reason>>

(* create_project_structure(base_path, project_name, structure) on the     *)
(* drive d: the drive after the call, the message of the exception raised  *)
(* (<<>> if none), the path returned and the mkdir calls made.             *)
CreateProjectStructure(d, base_path, project_name, structure) ==
    LET project_path == ProjectPath(base_path, project_name)
        r == MakeAll(d, <<project_path>> \o Targets(project_path, structure), <<>>)
    IN  [drive |-> r.drive,
         raised |-> IF r.error = NONE THEN <<>>
                    ELSE <<StructureMessage(project_path, r.error)>>,
         returned |-> IF r.error = NONE THEN <<project_path>> ELSE <<>>,
         attempted |-> r.attempted]

MaxBuilds == 2

CustomStructure ==
    << [folder |-> <<"Photos">>, subfolders |-> <<>>],
       [folder |-> <<"Videos">>, subfolders |-> << <<"Raw">>, <<"Edited">> >>] >>

Templates == {PROJECT_STRUCTURE, CustomStructure}

YearDir == <<PROJECT_ROOT_DIR, Year(Date2023)>>

BasePaths == {<<PROJECT_ROOT_DIR>>, YearDir}

Wedding == Date2023 \o <<"_">> \o <<"W">>

ProjectNames == {Wedding, <<"a", "/", "b">>, <<".", " ">>}

(* The project of the source named W dated 2023-12-31.                     *)
WeddingPath == ProjectPath(YearDir, Wedding)

(* create_project_structure called by a client.                            *)
CreateStructure ==
    /\ entry = "structure"
    /\ volume.calls < MaxBuilds
    /\ \E base_path \in BasePaths, project_name \in ProjectNames,
          structure \in Templates :
         LET r == CreateProjectStructure(volume.drive, base_path, project_name,
                                         structure)
             args == <<base_path, project_name, structure>>
         IN  volume' = Volume(r.drive, volume.calls + 1,
                 Build("structure", args, volume.drive, r.raised, r.returned,
                       r.attempted,
                       volume.last.op = "structure" /\ volume.last.args = args,
                       <<volume.last.raised, volume.last.returned>>, <<>>, <<>>))
    /\ UNCHANGED <<entry, copierVars, exifHandler, naming, gui, legacy>>

(* A create_project that goes on to organize_files after a structure       *)
(* error.                                                                  *)
CP_StructureCarriesOn ==
    /\ entry = "structure"
    /\ volume.calls < MaxBuilds
    /\ \E dated \in BOOLEAN, name \in SourceNames, margin \in {5, 6} :
         LET date == IF dated THEN Date2023 ELSE NONE
             source == SourceInfo("root", name, date)
             args == <<source, 5, margin>>
             fail(d, error, r) ==
                 Volume(d, volume.calls + 1,
                     Build("create_project", args, volume.drive, r.raised, <<>>,
                           r.attempted, FALSE, <<>>,
                           <<ProjectResult(source, <<>>, <<>>, FALSE, error)>>, <<>>))
             none == [raised |-> <<>>, attempted |-> <<>>]
         IN  IF date = NONE
             THEN volume' = fail(volume.drive, <<DateNotSet, name>>, none)
             ELSE
             LET base_path == <<PROJECT_ROOT_DIR, Year(date)>>
                 base == Mkdir(volume.drive, base_path, TRUE, TRUE)
                 r == CreateProjectStructure(base.drive, base_path,
                                             date \o <<"_">> \o name, PROJECT_STRUCTURE)
                 project_path == ProjectPath(base_path, date \o <<"_">> \o name)
             IN  IF base.error # NONE
                 THEN volume' = fail(base.drive, <<base.error>>, none)
                 ELSE IF InsufficientSpace(margin, 5)
                 THEN volume' = fail(base.drive, <<InsufficientDiskSpace>>, none)
                 ELSE volume' = Volume(r.drive, volume.calls + 1,
                         Build("create_project", args, volume.drive, r.raised,
                               r.returned, r.attempted, FALSE, <<>>, <<>>,
                               <<Append(project_path, <<"02_RAW">>)>>))
    /\ UNCHANGED <<entry, copierVars, exifHandler, naming, gui, legacy>>

(* create_project up to its call of organize_files: the date test, the     *)
(* mkdir of the year directory, the space check on a source of size 5 and  *)
(* create_project_structure.  An exception ends the call with a failed     *)
(* ProjectResult that carries its text.                                    *)
CP_Structure ==
    /\ entry = "structure"
    /\ volume.calls < MaxBuilds
    /\ \E dated \in BOOLEAN, name \in SourceNames, margin \in {5, 6} :
         LET date == IF dated THEN Date2023 ELSE NONE
             source == SourceInfo("root", name, date)
             args == <<source, 5, margin>>
             fail(d, error, r) ==
                 Volume(d, volume.calls + 1,
                     Build("create_project", args, volume.drive, r.raised, <<>>,
                           r.attempted, FALSE, <<>>,
                           <<ProjectResult(source, <<>>, <<>>, FALSE, error)>>, <<>>))
             none == [raised |-> <<>>, attempted |-> <<>>]
         IN  IF date = NONE
             THEN volume' = fail(volume.drive, <<DateNotSet, name>>, none)
             ELSE
             LET base_path == <<PROJECT_ROOT_DIR, Year(date)>>
                 base == Mkdir(volume.drive, base_path, TRUE, TRUE)
                 r == CreateProjectStructure(base.drive, base_path,
                                             date \o <<"_">> \o name, PROJECT_STRUCTURE)
                 project_path == ProjectPath(base_path, date \o <<"_">> \o name)
             IN  IF base.error # NONE
                 THEN volume' = fail(base.drive, <<base.error>>, none)
                 ELSE IF InsufficientSpace(margin, 5)
                 THEN volume' = fail(base.drive, <<InsufficientDiskSpace>>, none)
                 ELSE IF r.raised # <<>>
                 THEN volume' = fail(r.drive, r.raised[1], r)
                 ELSE volume' = Volume(r.drive, volume.calls + 1,
                         Build("create_project", args, volume.drive, <<>>,
                               r.returned, r.attempted, FALSE, <<>>, <<>>,
                               <<Append(project_path, <<"02_RAW">>)>>))
    /\ UNCHANGED <<entry, copierVars, exifHandler, naming, gui, legacy>>

(* The drives: empty with room for 0, 2, 3, 8 or 40 directories; with a    *)
(* read-only root or year directory; with a regular file where the         *)
(* project or one of its folders is to be; with a project whose folder     *)
(* 04_RETOUCHE is read-only; with the whole project in place, read-only    *)
(* and full.                                                               *)
Drives ==
    {Drive({}, {}, {}, room) : room \in {0, 2, 3, 8, 40}}
    \cup {Drive({}, {}, {<<>>}, 40),
          Drive(Ancestors(YearDir), {}, {YearDir}, 40),
          Drive(Ancestors(YearDir), {WeddingPath}, {}, 40),
          Drive(Ancestors(WeddingPath), {Append(WeddingPath, <<"02_RAW">>)}, {}, 40),
          Drive(Ancestors(WeddingPath) \cup {Append(WeddingPath, <<"04_RETOUCHE">>)},
                {Append(Append(WeddingPath, <<"04_RETOUCHE">>), <<"old.psd">>)},
                {Append(WeddingPath, <<"04_RETOUCHE">>)}, 40),
          Drive(StructureDirs(WeddingPath, PROJECT_STRUCTURE),
                {Append(Append(WeddingPath, <<"02_RAW">>), <<"photo.jpg">>)},
                StructureDirs(WeddingPath, PROJECT_STRUCTURE) \cup {<<>>}, 0)}

InitStructure ==
    /\ entry = "structure"
    /\ pc = "idle"
    /\ sources = <<>> /\ autoDetect = FALSE /\ idx = 0 /\ cur = NoProject
    /\ results = <<>> /\ dirs = {} /\ pre = {} /\ fs = <<>>
    /\ maxWorkers = 1 /\ mkdirOk = TRUE /\ files = <<>>
    /\ destDir = <<>> /\ tasks = NoTask /\ cfResults = <<>>
    /\ rc = NoCall /\ scan = NoScan /\ exifHandler = NoCache /\ naming = NoNaming
    /\ gui = NoGui /\ legacy = NoLegacy /\ progress = NoProgress
    /\ construction = NoConstruction /\ window = NoWindow
    /\ \E d \in Drives : volume = Volume(d, 0, NoBuild)

NextStructure == CreateStructure \/ CP_Structure

SpecStructure == InitStructure /\ [][NextStructure]_vars

(***************************************************************************)
(* SourceInfo constructed directly: __post_init__ validates the path with  *)
(* must_exist and must_be_dir; the name and the date are taken as given.   *)
(***************************************************************************)
MaxMade == 2

Depths == {3, MAX_PATH_DEPTH, MAX_PATH_DEPTH + 1}

SourcePaths ==
    {Node(parts, exists, is_dir, readable) :
        parts \in Depths, exists \in BOOLEAN, is_dir \in BOOLEAN, readable \in BOOLEAN}
    \ {n \in [parts : Depths, exists : {FALSE}, is_dir : BOOLEAN, is_file : BOOLEAN,
              readable : BOOLEAN] : n.is_dir \/ n.readable}

NewSourceInfo ==
    /\ entry = "source"
    /\ construction.calls < MaxMade
    /\ \E path \in SourcePaths, name \in {<<"W">>, <<>>}, dated \in BOOLEAN :
         LET date == IF dated THEN Date2023 ELSE NONE
             reason == ValidatePath(path, TRUE, TRUE, FALSE, TRUE)
         IN  construction' =
                Construction(IF reason = "ok"
                             THEN Append(construction.made, SourceInfo(path, name, date))
                             ELSE construction.made,
                             construction.calls + 1, path, name, date, reason)
    /\ UNCHANGED <<entry, pc, sources, autoDetect, idx, cur, results, dirs, pre, fs,
                   maxWorkers, mkdirOk, files, destDir, tasks, cfResults, rc, scan,
                   exifHandler, volume, naming, gui, legacy, progress, window>>

InitSource ==
    /\ entry = "source"
    /\ pc = "idle"
    /\ sources = <<>> /\ autoDetect = FALSE /\ idx = 0 /\ cur = NoProject
    /\ results = <<>> /\ dirs = {} /\ pre = {} /\ fs = <<>>
    /\ maxWorkers = 1 /\ mkdirOk = TRUE /\ files = <<>>
    /\ destDir = <<>> /\ tasks = NoTask /\ cfResults = <<>>
    /\ rc = NoCall /\ scan = NoScan /\ exifHandler = NoCache
    /\ volume = NoVolume /\ naming = NoNaming
    /\ gui = NoGui /\ legacy = NoLegacy /\ progress = NoProgress
    /\ construction = NoConstruction /\ window = NoWindow

NextSource == NewSourceInfo

SpecSource == InitSource /\ [][NextSource]_vars


(***************************************************************************)
(* PhotoFlowGUI._process_worker: the worker thread of the graphical front  *)
(* end, which calls detect_date and create_project of the manager, and     *)
(* on_closing, which sets the stop event.  The position "pms_loop" is the  *)
(* head of the loop over the sources that calls create_project.            *)
(***************************************************************************)
(* A date loop turn: the stop event is tested, then a source without date  *)
(* has its date detected; without a date found the worker asks for one     *)
(* and returns.                                                            *)
PW_Detect ==
    /\ entry = "gui"
    /\ pc = "pw_detect"
    /\ gui.detected < Len(sources)
    /\ IF gui.stop
       THEN /\ pc' = "pw_cancelled"
            /\ UNCHANGED <<sources, gui>>
       ELSE IF sources[gui.detected + 1].date = NONE
       THEN \E listing \in DetectListings :
            LET found == DetectDate(listing)
            IN  /\ sources' = [sources EXCEPT ![gui.detected + 1].date = found]
                /\ IF found = NONE
                   THEN /\ pc' = "pw_ask_date"
                        /\ UNCHANGED gui
                   ELSE /\ pc' = pc
                        /\ gui' = [gui EXCEPT !.detected = @ + 1]
       ELSE /\ gui' = [gui EXCEPT !.detected = @ + 1]
            /\ UNCHANGED <<sources, pc>>
    /\ UNCHANGED <<entry, autoDetect, idx, cur, results, dirs, pre, fs, maxWorkers,
                   mkdirOk, files, destDir, tasks, cfResults, rc, scan,
                   exifHandler, volume, naming, legacy, progress, construction, window>>

(* The date loop is over: the loop that creates the projects begins.       *)
PW_Detected ==
    /\ entry = "gui"
    /\ pc = "pw_detect"
    /\ gui.detected = Len(sources)
    /\ pc' = "pms_loop"
    /\ UNCHANGED <<entry, sources, autoDetect, idx, cur, results, dirs, pre, fs,
                   maxWorkers, mkdirOk, files, destDir, tasks, cfResults, rc, scan,
                   exifHandler, volume, naming, gui, legacy, progress, construction, window>>

(* A turn of the loop that creates the projects: the stop event is tested, *)
(* then create_project is called for the source.                           *)
PW_Next ==
    /\ entry = "gui"
    /\ pc = "pms_loop"
    /\ idx < Len(sources)
    /\ pc' = IF gui.stop THEN "pw_cancelled" ELSE "create_project"
    /\ cur' = NoProject
    /\ UNCHANGED <<entry, sources, autoDetect, idx, results, dirs, pre, fs,
                   maxWorkers, mkdirOk, files, destDir, tasks, cfResults, rc, scan,
                   exifHandler, volume, naming, gui, legacy, progress, construction, window>>

(* Every source was handled: the worker reports the end.                   *)
PW_Complete ==
    /\ entry = "gui"
    /\ pc = "pms_loop"
    /\ idx = Len(sources)
    /\ pc' = "pw_complete"
    /\ UNCHANGED <<entry, sources, autoDetect, idx, cur, results, dirs, pre, fs,
                   maxWorkers, mkdirOk, files, destDir, tasks, cfResults, rc, scan,
                   exifHandler, volume, naming, gui, legacy, progress, construction, window>>

WorkerAlive == pc \notin {"pw_cancelled", "pw_ask_date", "pw_complete", "pw_killed"}

(* on_closing: while the worker thread is alive and the user confirms, the *)
(* stop event is set and the window is destroyed; without a live worker    *)
(* the window is destroyed.                                                *)
OnClosing ==
    /\ entry = "gui"
    /\ ~gui.destroyed
    /\ gui' = [gui EXCEPT !.stop = IF WorkerAlive THEN TRUE ELSE @,
                          !.destroyed = TRUE]
    /\ UNCHANGED <<entry, copierVars, exifHandler, volume, naming, legacy>>

(* main returns once the window is destroyed and the program ends: the     *)
(* worker, a daemon thread, ends wherever it stands; the threads of the    *)
(* pool are not daemon threads and are joined first, so that no submitted  *)
(* copy is left unfinished.                                                *)
MainReturns ==
    /\ entry = "gui"
    /\ gui.destroyed
    /\ WorkerAlive
    /\ \A t \in Tasks : tasks[t].pc \notin {"queued", "resolve", "copy"}
    /\ pc' = "pw_killed"
    /\ UNCHANGED <<entry, sources, autoDetect, idx, cur, results, dirs, pre, fs,
                   maxWorkers, mkdirOk, files, destDir, tasks, cfResults, rc, scan,
                   exifHandler, volume, naming, gui, legacy, progress, construction, window>>

(***************************************************************************)
(* PhotoFlowGUI: the life of its worker threads.  start_processing and the *)
(* confirmation of a manual date each start a thread that runs             *)
(* _process_worker; the main thread handles the messages of the workers    *)
(* every 100 ms.  create_project is one step that begins and one that      *)
(* ends; the window is not closed during the run.                          *)
(***************************************************************************)
MaxStarts == 3

ASK_DATE == "ask_date"
COMPLETE == "complete"
DONE == "done"

(* A worker that is in one of its two loops drives the manager.            *)
Driving(w) == w.at \in {"dates", "projects", "creating"}

QueuePut(w, message) == [w EXCEPT !.queue = Append(@, message)]

(* The Process button: the button is disabled, the stop event cleared and  *)
(* a worker thread started.  The button cannot be pressed while it is      *)
(* disabled or while a dialog holds the grab.                              *)
StartProcessing ==
    /\ entry = "window"
    /\ window.btn_process
    /\ ~window.grab
    /\ sources # <<>>
    /\ Len(window.workers) < MaxStarts
    /\ window' = [window EXCEPT !.btn_process = FALSE,
                                !.workers = Append(@, Worker("dates", 0))]
    /\ gui' = [gui EXCEPT !.stop = FALSE]
    /\ UNCHANGED <<entry, pc, sources, autoDetect, idx, cur, results, dirs, pre, fs,
                   maxWorkers, mkdirOk, files, destDir, tasks, cfResults, rc, scan,
                   exifHandler, volume, naming, legacy, progress, construction>>

(* A turn of the date loop of a worker: a source without date has its date *)
(* detected; when none is found the worker asks for one and returns.       *)
WorkerDates(w) ==
    /\ entry = "window"
    /\ window.workers[w].at = "dates"
    /\ LET i == window.workers[w].i
       IN  IF i = Len(sources)
           THEN /\ window' = [window EXCEPT !.workers[w] = Worker("projects", 0)]
                /\ UNCHANGED sources
           ELSE IF sources[i + 1].date # NONE
           THEN /\ window' = [window EXCEPT !.workers[w].i = i + 1]
                /\ UNCHANGED sources
           ELSE \E found \in BOOLEAN :
                   IF found
                   THEN /\ sources' = [sources EXCEPT ![i + 1].date = Date2023]
                        /\ window' = [window EXCEPT !.workers[w].i = i + 1]
                   ELSE /\ window' = [QueuePut(window, <<ASK_DATE, i + 1>>)
                                         EXCEPT !.workers[w].at = "returning"]
                        /\ UNCHANGED sources
    /\ UNCHANGED <<entry, pc, autoDetect, idx, cur, results, dirs, pre, fs,
                   maxWorkers, mkdirOk, files, destDir, tasks, cfResults, rc, scan,
                   exifHandler, volume, naming, gui, legacy, progress, construction>>

(* A turn of the loop over the projects: create_project is called for the  *)
(* next source, or the end is reported.                                    *)
WorkerNext(w) ==
    /\ entry = "window"
    /\ window.workers[w].at = "projects"
    /\ window' = IF window.workers[w].i < Len(sources)
                 THEN [window EXCEPT !.workers[w].at = "creating"]
                 ELSE [QueuePut(window, <<COMPLETE, 0>>) EXCEPT !.workers[w].at = "returning"]
    /\ UNCHANGED <<entry, pc, sources, autoDetect, idx, cur, results, dirs, pre, fs,
                   maxWorkers, mkdirOk, files, destDir, tasks, cfResults, rc, scan,
                   exifHandler, volume, naming, gui, legacy, progress, construction>>

(* create_project returns to the worker that called it.                    *)
WorkerCreated(w) ==
    /\ entry = "window"
    /\ window.workers[w].at = "creating"
    /\ window' = [window EXCEPT !.workers[w] = Worker("projects", @.i + 1)]
    /\ UNCHANGED <<entry, pc, sources, autoDetect, idx, cur, results, dirs, pre, fs,
                   maxWorkers, mkdirOk, files, destDir, tasks, cfResults, rc, scan,
                   exifHandler, volume, naming, gui, legacy, progress, construction>>

(* The finally clause of the worker: 'done' is put and the thread ends.    *)
WorkerDone(w) ==
    /\ entry = "window"
    /\ window.workers[w].at = "returning"
    /\ window' = [QueuePut(window, <<DONE, 0>>) EXCEPT !.workers[w].at = "ended"]
    /\ UNCHANGED <<entry, pc, sources, autoDetect, idx, cur, results, dirs, pre, fs,
                   maxWorkers, mkdirOk, files, destDir, tasks, cfResults, rc, scan,
                   exifHandler, volume, naming, gui, legacy, progress, construction>>

(* What the main thread does with one message.                             *)
HandleMessage(w, message) ==
    IF message[1] = ASK_DATE
    THEN [w EXCEPT !.dialogs = Append(@, message[2]), !.grab = TRUE]
    ELSE IF message[1] = DONE
    THEN [w EXCEPT !.btn_process = TRUE]
    ELSE w

RECURSIVE Drained(_)
Drained(w) ==
    IF w.queue = <<>> THEN w
    ELSE Drained(HandleMessage([w EXCEPT !.queue = Tail(@)], Head(w.queue)))

(* process_message_queue: every message waiting is handled, in order.      *)
ProcessMessageQueue ==
    /\ entry = "window"
    /\ window.queue # <<>>
    /\ window' = Drained(window)
    /\ UNCHANGED <<entry, pc, sources, autoDetect, idx, cur, results, dirs, pre, fs,
                   maxWorkers, mkdirOk, files, destDir, tasks, cfResults, rc, scan,
                   exifHandler, volume, naming, gui, legacy, progress, construction>>

Interactive(d) ==
    /\ d \in DOMAIN window.dialogs
    /\ window.grab => d = Len(window.dialogs)

Closed(d) ==
    [k \in 1..(Len(window.dialogs) - 1) |->
        IF k < d THEN window.dialogs[k] ELSE window.dialogs[k + 1]]

(* on_ok of a manual-date dialog with a valid date: the date is set, the   *)
(* dialog destroyed and a worker thread started.                           *)
OnOk(d) ==
    /\ entry = "window"
    /\ Interactive(d)
    /\ Len(window.workers) < MaxStarts
    /\ sources' = [sources EXCEPT ![window.dialogs[d]].date = Date2023]
    /\ window' = [window EXCEPT !.dialogs = Closed(d), !.grab = FALSE,
                                !.workers = Append(@, Worker("dates", 0))]
    /\ UNCHANGED <<entry, pc, autoDetect, idx, cur, results, dirs, pre, fs,
                   maxWorkers, mkdirOk, files, destDir, tasks, cfResults, rc, scan,
                   exifHandler, volume, naming, gui, legacy, progress, construction>>

(* A manual-date dialog closed without a date.                             *)
DialogClosed(d) ==
    /\ entry = "window"
    /\ Interactive(d)
    /\ window' = [window EXCEPT !.dialogs = Closed(d), !.grab = FALSE]
    /\ UNCHANGED <<entry, pc, sources, autoDetect, idx, cur, results, dirs, pre, fs,
                   maxWorkers, mkdirOk, files, destDir, tasks, cfResults, rc, scan,
                   exifHandler, volume, naming, gui, legacy, progress, construction>>

InitWorker ==
    /\ entry = "window"
    /\ pc = "idle"
    /\ \E n \in 1..MaxSources :
         sources \in [1..n -> {SourceInfo(d, nm, dt) : d \in SourceDirs,
                                  nm \in SourceNames, dt \in {NONE, Date2023}}]
    /\ autoDetect = FALSE /\ idx = 0 /\ cur = NoProject
    /\ results = <<>> /\ dirs = {} /\ pre = {} /\ fs = <<>>
    /\ maxWorkers = MAX_WORKERS /\ mkdirOk = TRUE /\ files = <<>>
    /\ destDir = <<>> /\ tasks = NoTask /\ cfResults = <<>>
    /\ rc = NoCall /\ scan = NoScan /\ exifHandler = NoCache
    /\ volume = NoVolume /\ naming = NoNaming
    /\ gui = NoGui /\ legacy = NoLegacy /\ progress = NoProgress
    /\ construction = NoConstruction /\ window = NoWindow

NextWorker ==
    \/ StartProcessing
    \/ \E w \in DOMAIN window.workers : WorkerDates(w)
    \/ \E w \in DOMAIN window.workers : WorkerNext(w)
    \/ \E w \in DOMAIN window.workers : WorkerCreated(w)
    \/ \E w \in DOMAIN window.workers : WorkerDone(w)
    \/ ProcessMessageQueue
    \/ \E d \in DOMAIN window.dialogs : OnOk(d)
    \/ \E d \in DOMAIN window.dialogs : DialogClosed(d)

SpecWorker == InitWorker /\ [][NextWorker]_vars

(***************************************************************************)
(* PhotoProManagerGUI (photoflow_gui.py): process_sources, run by the      *)
(* thread that start_processing starts, with organize_files and its two    *)
(* file loops, in copy mode with the rename pattern {original}; the        *)
(* sources carry a date.  A file of the current source is "pending" or     *)
(* "queued", then "checked" (process_file passed its test of the flag),    *)
(* "copying" (copy_file passed its test and copies), and at last "done"    *)
(* (copy_file returned, having copied or failed) or "skipped" (a test      *)
(* found the flag set).                                                    *)
(***************************************************************************)
MultithreadOver == 10
MaxThreads == 2

(* The numbers of files of the sources of a run: none, a few, and more     *)
(* than the pool asks for.                                                 *)
LegacyRuns ==
    {<<MultithreadOver + 1>>, <<2, MultithreadOver + 1>>,
     <<MultithreadOver + 1, 2>>, <<0, 2>>}

Copying(l) == {t \in DOMAIN l.tasks : l.tasks[t] = "copying"}

Active(l) == {t \in DOMAIN l.tasks : l.tasks[t] \in {"checked", "copying"}}

Finished(l) == {t \in DOMAIN l.tasks : l.tasks[t] \in {"done", "skipped"}}

LegacyFrame == <<entry, copierVars, exifHandler, volume, naming, gui>>

(* process_sources begins: the flag is cleared.                            *)
PS_Start ==
    /\ entry = "legacy"
    /\ legacy.pc = "ps_start"
    /\ legacy' = [legacy EXCEPT !.cancel_flag = FALSE, !.pc = "ps_dates", !.i = 0]
    /\ UNCHANGED LegacyFrame

(* The loop over the sources that detects the dates: the flag is tested    *)
(* at each turn.                                                           *)
PS_Dates ==
    /\ entry = "legacy"
    /\ legacy.pc = "ps_dates"
    /\ legacy' =
         IF legacy.i < Len(legacy.sources)
         THEN IF legacy.cancel_flag
              THEN [legacy EXCEPT !.observed = TRUE, !.pc = "ps_loop", !.i = 0]
              ELSE [legacy EXCEPT !.i = @ + 1]
         ELSE [legacy EXCEPT !.pc = "ps_loop", !.i = 0]
    /\ UNCHANGED LegacyFrame

(* The loop over the sources that makes the projects: the flag is tested,  *)
(* the year directory and the structure are made and organize_files is     *)
(* called.  An error of the structure skips the source, an error of the    *)
(* year directory ends the run.                                            *)
PS_Next ==
    /\ entry = "legacy"
    /\ legacy.pc = "ps_loop"
    /\ IF legacy.handled < Len(legacy.sources)
       THEN IF legacy.cancel_flag
            THEN legacy' = [legacy EXCEPT !.observed = TRUE, !.pc = "ps_end"]
            ELSE \E outcome \in {"ok", "structure_error", "mkdir_error"} :
                 legacy' =
                   IF outcome = "ok"
                   THEN [legacy EXCEPT !.started = @ \cup {legacy.handled + 1},
                                       !.pc = "organize"]
                   ELSE IF outcome = "structure_error"
                   THEN [legacy EXCEPT !.started = @ \cup {legacy.handled + 1},
                                       !.handled = @ + 1]
                   ELSE [legacy EXCEPT !.pc = "ps_end"]
       ELSE legacy' = [legacy EXCEPT !.pc = "ps_end"]
    /\ UNCHANGED LegacyFrame

(* organize_files: the flag is tested, the files are listed and handed to  *)
(* the sequential loop or, when there are more than ten and the setting    *)
(* is on, all submitted to a pool.                                         *)
PS_Organize ==
    /\ entry = "legacy"
    /\ legacy.pc = "organize"
    /\ LET total == legacy.sources[legacy.handled + 1]
       IN  legacy' =
             IF legacy.cancel_flag
             THEN [legacy EXCEPT !.observed = TRUE, !.handled = @ + 1, !.pc = "ps_loop"]
             ELSE IF total = 0
             THEN [legacy EXCEPT !.handled = @ + 1, !.pc = "ps_loop", !.tasks = <<>>]
             ELSE IF legacy.use_multithread /\ total > MultithreadOver
             THEN [legacy EXCEPT !.tasks = [t \in 1..total |-> "queued"], !.i = 0,
                                 !.pc = "mt_collect"]
             ELSE [legacy EXCEPT !.tasks = [t \in 1..total |-> "pending"], !.i = 0,
                                 !.pc = "seq_loop"]
    /\ UNCHANGED LegacyFrame

(* organize_files_sequential: the head of the loop tests the flag.         *)
SEQ_Loop ==
    /\ entry = "legacy"
    /\ legacy.pc = "seq_loop"
    /\ legacy' =
         IF legacy.i < Len(legacy.tasks)
         THEN IF legacy.cancel_flag
              THEN [legacy EXCEPT !.observed = TRUE, !.handled = @ + 1, !.pc = "ps_loop"]
              ELSE [legacy EXCEPT !.pc = "seq_copy_file"]
         ELSE [legacy EXCEPT !.handled = @ + 1, !.pc = "ps_loop"]
    /\ UNCHANGED LegacyFrame

(* copy_file called by the sequential loop: it tests the flag, then        *)
(* copies.                                                                 *)
SEQ_CopyFile ==
    /\ entry = "legacy"
    /\ legacy.pc = "seq_copy_file"
    /\ legacy' =
         IF legacy.cancel_flag
         THEN [legacy EXCEPT !.observed = TRUE, !.tasks[legacy.i + 1] = "skipped",
                             !.i = @ + 1, !.pc = "seq_loop"]
         ELSE [legacy EXCEPT !.tasks[legacy.i + 1] = "copying", !.pc = "seq_copying"]
    /\ UNCHANGED LegacyFrame

(* The copy of the sequential loop ends.                                   *)
SEQ_Copied ==
    /\ entry = "legacy"
    /\ legacy.pc = "seq_copying"
    /\ legacy' = [legacy EXCEPT !.tasks[legacy.i + 1] = "done", !.i = @ + 1,
                                !.pc = "seq_loop"]
    /\ UNCHANGED LegacyFrame

(* A pool thread takes the oldest submitted file: process_file tests the   *)
(* flag.                                                                   *)
MT_ProcessFile(t) ==
    /\ entry = "legacy"
    /\ legacy.pc \in {"mt_collect", "mt_exit"}
    /\ legacy.tasks[t] = "queued"
    /\ \A u \in DOMAIN legacy.tasks : u < t => legacy.tasks[u] # "queued"
    /\ Cardinality(Active(legacy)) < legacy.max_threads
    /\ legacy' = IF legacy.cancel_flag
                 THEN [legacy EXCEPT !.observed = TRUE, !.tasks[t] = "skipped"]
                 ELSE [legacy EXCEPT !.tasks[t] = "checked"]
    /\ UNCHANGED LegacyFrame

(* A copy_file without its test of the flag.                               *)
MT_CopyFileNoTest(t) ==
    /\ entry = "legacy"
    /\ legacy.pc \in {"mt_collect", "mt_exit"}
    /\ legacy.tasks[t] = "checked"
    /\ legacy' = [legacy EXCEPT !.tasks[t] = "copying"]
    /\ UNCHANGED LegacyFrame

(* copy_file called by process_file: it tests the flag, then copies.       *)
MT_CopyFile(t) ==
    /\ entry = "legacy"
    /\ legacy.pc \in {"mt_collect", "mt_exit"}
    /\ legacy.tasks[t] = "checked"
    /\ legacy' = IF legacy.cancel_flag
                 THEN [legacy EXCEPT !.observed = TRUE, !.tasks[t] = "skipped"]
                 ELSE [legacy EXCEPT !.tasks[t] = "copying"]
    /\ UNCHANGED LegacyFrame

(* The copy of a pool thread ends.                                         *)
MT_Copied(t) ==
    /\ entry = "legacy"
    /\ legacy.pc \in {"mt_collect", "mt_exit"}
    /\ legacy.tasks[t] = "copying"
    /\ legacy' = [legacy EXCEPT !.tasks[t] = "done"]
    /\ UNCHANGED LegacyFrame

(* The as_completed loop of organize_files_multithread: at each future     *)
(* that has ended the flag is tested; when set the executor is shut down   *)
(* without waiting and the loop left.                                      *)
MT_Collect ==
    /\ entry = "legacy"
    /\ legacy.pc = "mt_collect"
    /\ \/ legacy.i = Len(legacy.tasks)
       \/ legacy.i < Cardinality(Finished(legacy))
    /\ legacy' =
         IF legacy.i < Len(legacy.tasks)
         THEN IF legacy.cancel_flag
              THEN [legacy EXCEPT !.observed = TRUE, !.pc = "mt_exit"]
              ELSE [legacy EXCEPT !.i = @ + 1]
         ELSE [legacy EXCEPT !.pc = "mt_exit"]
    /\ UNCHANGED LegacyFrame

(* The end of the with block: the executor is shut down and waited for.    *)
MT_Exit ==
    /\ entry = "legacy"
    /\ legacy.pc = "mt_exit"
    /\ Finished(legacy) = DOMAIN legacy.tasks
    /\ legacy' = [legacy EXCEPT !.handled = @ + 1, !.pc = "ps_loop"]
    /\ UNCHANGED LegacyFrame

(* The end of process_sources and stop_progress, which clears the flag     *)
(* and disables the cancel button.                                         *)
PS_End ==
    /\ entry = "legacy"
    /\ legacy.pc = "ps_end"
    /\ legacy' = [legacy EXCEPT !.pc = "done", !.cancel_flag = FALSE]
    /\ UNCHANGED LegacyFrame

(* cancel_operation, confirmed by the user: the flag is set.  The button   *)
(* is enabled from start_processing to stop_progress.                      *)
CancelOperation ==
    /\ entry = "legacy"
    /\ legacy.pc # "done"
    /\ ~legacy.cancel_flag
    /\ legacy' = [legacy EXCEPT !.cancel_flag = TRUE]
    /\ UNCHANGED LegacyFrame

(* A run of either front end.                                              *)
InitCancel ==
    /\ entry \in {"gui", "legacy"}
    /\ autoDetect = FALSE
    /\ idx = 0 /\ cur = NoProject /\ results = <<>>
    /\ dirs = {} /\ pre = {} /\ fs = <<>>
    /\ maxWorkers = MAX_WORKERS
    /\ mkdirOk = TRUE
    /\ files = <<>> /\ destDir = <<>> /\ tasks = NoTask /\ cfResults = <<>>
    /\ rc = NoCall /\ scan = NoScan /\ exifHandler = NoCache
    /\ volume = NoVolume /\ naming = NoNaming /\ progress = NoProgress
    /\ construction = NoConstruction /\ window = NoWindow
    /\ IF entry = "gui"
       THEN /\ pc = "pw_detect"
            /\ \E n \in 1..MaxSources :
                 sources \in [1..n -> {SourceInfo(d, nm, dt) : d \in SourceDirs,
                                          nm \in SourceNames, dt \in {NONE, Date2023}}]
            /\ gui = NoGui
            /\ legacy = NoLegacy
       ELSE /\ pc = "idle"
            /\ sources = <<>>
            /\ gui = NoGui
            /\ \E folders \in LegacyRuns, use_multithread \in BOOLEAN,
                  max_threads \in 1..MaxThreads :
                 legacy = Legacy("ps_start", FALSE, folders, use_multithread,
                                 max_threads, 0, 0, <<>>, {}, FALSE)

NextCancel ==
    \/ PW_Detect
    \/ PW_Detected
    \/ PW_Next
    \/ PW_Complete
    \/ OnClosing
    \/ MainReturns
    \/ (entry = "gui" /\ WorkerAlive /\ CP_Prepare)
    \/ (entry = "gui" /\ WorkerAlive /\ Organize)
    \/ (entry = "gui" /\ WorkerAlive /\ CFC_Call)
    \/ (entry = "gui" /\ \E t \in Tasks : StartCopy(t))
    \/ (entry = "gui" /\ \E t \in Tasks : ResolveStep(t))
    \/ (entry = "gui" /\ \E t \in Tasks : CopyStep(t))
    \/ (entry = "gui" /\ WorkerAlive /\ \E t \in Tasks : Collect(t))
    \/ (entry = "gui" /\ WorkerAlive /\ CFC_Return)
    \/ CP_Finish
    \/ PS_Start
    \/ PS_Dates
    \/ PS_Next
    \/ PS_Organize
    \/ SEQ_Loop
    \/ SEQ_CopyFile
    \/ SEQ_Copied
    \/ (\E t \in DOMAIN legacy.tasks : MT_ProcessFile(t))
    \/ (\E t \in DOMAIN legacy.tasks : MT_CopyFile(t))
    \/ (\E t \in DOMAIN legacy.tasks : MT_Copied(t))
    \/ MT_Collect
    \/ MT_Exit
    \/ PS_End
    \/ CancelOperation

SpecCancel == InitCancel /\ [][NextCancel]_vars

(***************************************************************************)
(* resolve_collision called directly on a destination path.                *)
(***************************************************************************)
Call(p, destination, counter, result) ==
    [pc |-> p, destination |-> destination, counter |-> counter, result |-> result]

(* The test of the intended path, before the loop.                         *)
RC_Enter ==
    /\ entry = "resolve"
    /\ rc.pc = "call"
    /\ LET r == ResolveEntry(rc.destination)
       IN  rc' = IF r.op = "return"
                 THEN Call("returned", rc.destination, r.counter, r.path)
                 ELSE Call("loop", rc.destination, r.counter, NoPath)
    /\ UNCHANGED <<entry, pc, sources, autoDetect, idx, cur, results, dirs, pre,
                   fs, maxWorkers, mkdirOk, files, destDir, tasks, cfResults, scan,
                   exifHandler, volume, naming, gui, legacy, progress, construction, window>>

(* One turn of the loop.                                                   *)
RC_Loop ==
    /\ entry = "resolve"
    /\ rc.pc = "loop"
    /\ LET r == ResolveIter(rc.destination, rc.counter)
       IN  rc' = IF r.op = "return"
                 THEN Call("returned", rc.destination, r.counter, r.path)
                 ELSE IF r.op = "raise"
                 THEN Call("raised", rc.destination, r.counter, NoPath)
                 ELSE Call("loop", rc.destination, r.counter, NoPath)
    /\ UNCHANGED <<entry, pc, sources, autoDetect, idx, cur, results, dirs, pre,
                   fs, maxWorkers, mkdirOk, files, destDir, tasks, cfResults, scan,
                   exifHandler, volume, naming, gui, legacy, progress, construction, window>>

MaxRun == 3

(* Files in the destination before the call: photo.jpg, photo_1.jpg,       *)
(* photo_2.jpg, a short run, the long run up to photo_9998.jpg, and        *)
(* photo_9999.jpg with its successor.                                      *)
ResolveRanges ==
    {PhotoRange(DestDir, 0, 0), PhotoRange(DestDir, 1, 1),
     PhotoRange(DestDir, 2, 2), PhotoRange(DestDir, 3, MaxRun),
     PhotoRange(DestDir, MaxRun + 1, CollisionLimit - 1),
     PhotoRange(DestDir, CollisionLimit, CollisionLimit + 1)}

InitResolve ==
    /\ entry = "resolve"
    /\ pc = "idle"
    /\ sources = <<>> /\ autoDetect = FALSE /\ idx = 0 /\ cur = NoProject
    /\ results = <<>>
    /\ dirs = {DestDir}
    /\ fs = <<>>
    /\ pre \in SUBSET ResolveRanges
    /\ maxWorkers = 1 /\ mkdirOk = TRUE
    /\ files = <<>> /\ destDir = DestDir /\ tasks = NoTask /\ cfResults = <<>>
    /\ scan = NoScan /\ exifHandler = NoCache
    /\ volume = NoVolume /\ naming = NoNaming
    /\ gui = NoGui /\ legacy = NoLegacy /\ progress = NoProgress
    /\ construction = NoConstruction /\ window = NoWindow
    /\ \E name \in {Photo.path.name, Photo1.path.name} :
         rc = Call("call", Join(DestDir, name), 0, NoPath)

NextResolve == RC_Enter \/ RC_Loop

SpecResolve == InitResolve /\ [][NextResolve]_vars

(***************************************************************************)
(* Properties.                                                             *)
(***************************************************************************)
Done == {t \in Tasks : tasks[t].pc \in {"finished", "collected"}}

Successful == {t \in Done : tasks[t].result.success}

Unsuccessful == {t \in Done : ~tasks[t].result.success}

InCall == pc \in {"cfc_collect", "copy_done"}

Populated(error) == error # NONE /\ error # ""

(* What validate_path and shutil.copy2 need of a source file.              *)
Sound(f) == ValidatePath(f, TRUE, FALSE, TRUE, TRUE) = "ok" /\ f.copy_ok

ReadableRegular(f) == f.exists /\ f.is_file /\ f.readable

Exhausted(path) ==
    Exists(path) /\ \A n \in 1..CollisionLimit : Exists(WithCounter(path, n))

(* Exhausted by the files that were there before the run.                  *)
PreExhausted(path) ==
    PreExisting(path) /\ \A n \in 1..CollisionLimit : PreExisting(WithCounter(path, n))

Count(seq, x) == Cardinality({i \in DOMAIN seq : seq[i] = x})

(* C1: in one copy_files_concurrent call no two successful results have    *)
(* the same destination, and no successful copy wrote over a file that     *)
(* was already there.                                                      *)
C1_DisjointDestinations ==
    InCall =>
        /\ \A t, u \in Successful :
             t # u => tasks[t].result.destination # tasks[u].result.destination
        /\ \A t \in Successful :
             fs[tasks[t].result.destination].writers[1] = Writer(t)

(* C2: when copy_files_concurrent returns, the sources of its results are  *)
(* the input files, each as many times as it was given.                    *)
C2_OneResultPerFile ==
    pc = "copy_done" =>
        /\ Len(cfResults) = Len(files)
        /\ \A i \in DOMAIN files :
             Count([j \in DOMAIN cfResults |-> cfResults[j].source], files[i].path)
               = Count([j \in DOMAIN files |-> files[j].path], files[i].path)

C2_Witness ==
    /\ entry = "copy" /\ pc = "copy_done"
    /\ Len(files) >= 3 /\ files[1] = files[2]
    /\ \E i, j \in DOMAIN cfResults : cfResults[i].success /\ ~cfResults[j].success

C4_AsStated ==
    pc = "copy_done" =>
        \A u \in Unsuccessful : \A t \in Tasks \ {u} :
            (ReadableRegular(files[t]) /\ files[t].path.name # files[u].path.name)
                => tasks[t].result.success

(* C4 amended: a failed copy changes no sibling's outcome: every other     *)
(* file that passes validate_path (depth included), whose own copy meets   *)
(* no I/O error and whose name has a free collision suffix ends with       *)
(* success = TRUE, and the call does not raise.                            *)
C4_SiblingsUnaffected ==
    /\ \A u \in Unsuccessful : \A t \in Done \ {u} :
         (Sound(files[t]) /\ files[t].path.name # files[u].path.name
            /\ ~tasks[t].result.success)
             => Exhausted(Join(destDir, files[t].path.name))
    /\ pc = "raised" => Unsuccessful = {}
    /\ pc = "copy_done" => Done = Tasks

C4_Witness ==
    /\ pc = "copy_done" /\ Len(files) >= 3
    /\ \E u \in Unsuccessful : \E t, v \in Successful :
         /\ t # v
         /\ files[t].path.name # files[u].path.name
         /\ files[v].path.name # files[u].path.name

(* C5: resolve_collision of an existing path returns a path that does not  *)
(* exist, in the same directory, named <stem>_<n><suffix> with n >= 1 the  *)
(* smallest n whose name is unused.                                        *)
C5_SmallestFreeSuffix ==
    (rc.pc = "returned" /\ Exists(rc.destination)) =>
        /\ rc.counter >= 1
        /\ rc.result = WithCounter(rc.destination, rc.counter)
        /\ rc.result.parent = rc.destination.parent
        /\ ~Exists(rc.result)
        /\ \A m \in 1..(rc.counter - 1) : Exists(WithCounter(rc.destination, m))

C5_Witness ==
    /\ rc.pc = "returned" /\ Exists(rc.destination)
    /\ rc.counter > 1 /\ rc.counter < CollisionLimit
    /\ Exists(WithCounter(rc.destination, rc.counter + 1))

(* C6: resolve_collision of a path that does not exist returns that path   *)
(* and leaves the filesystem as it was.                                    *)
C6_FreePathUnchanged ==
    /\ (rc.pc # "call" /\ ~Exists(rc.destination)) =>
            rc.pc = "returned" /\ rc.result = rc.destination
    /\ entry = "resolve" => fs = <<>> /\ dirs = {DestDir}

C6_Witness ==
    /\ rc.pc = "returned" /\ ~Exists(rc.destination)
    /\ Exists(WithCounter(rc.destination, 1))

(* C7: the loop stops within 9999 attempts; it raises exactly when the     *)
(* path and all of <stem>_1 .. <stem>_9999 exist, and returns <stem>_9999  *)
(* when that is the only free suffixed name.                               *)
C7_CollisionLimit ==
    /\ rc.pc = "loop" => rc.counter \in 1..CollisionLimit
    /\ rc.pc \in {"returned", "raised"} =>
         /\ rc.pc = "raised" <=> Exhausted(rc.destination)
         /\ (/\ Exists(rc.destination)
             /\ ~Exists(WithCounter(rc.destination, CollisionLimit))
             /\ \A n \in 1..(CollisionLimit - 1) :
                  Exists(WithCounter(rc.destination, n)))
            => rc.result = WithCounter(rc.destination, CollisionLimit)

C7_Witness == rc.pc = "raised" /\ rc.counter = CollisionLimit + 1

(* C8: a call on n sound files of which exactly two have the same name,    *)
(* into a directory holding no file, ends with n successes, exactly one    *)
(* renamed result and n files in the directory.                            *)
C8_OneRenamed ==
    (/\ pc = "copy_done" /\ pre = {}
     /\ \A i \in DOMAIN files : Sound(files[i])
     /\ Cardinality({ij \in (DOMAIN files) \X (DOMAIN files) :
                        /\ ij[1] < ij[2]
                        /\ files[ij[1]].path.name = files[ij[2]].path.name}) = 1)
    => /\ \A i \in DOMAIN cfResults : cfResults[i].success
       /\ Cardinality({i \in DOMAIN cfResults : cfResults[i].renamed}) = 1
       /\ Cardinality({p \in DOMAIN fs : p.parent = destDir}) = Len(files)

C10_OneSourceAtATime ==
    /\ pc # "cfc_collect" => \A t \in Tasks : tasks[t].pc = "collected"
    /\ \A p \in DOMAIN fs :
         LET w == fs[p].writers
         IN  \A i, j \in DOMAIN w : i < j => w[i][1] <= w[j][1] /\ w[j][1] <= Current

C10_Witness ==
    /\ entry = "batch" /\ idx = 1 /\ Running # {}
    /\ Len(results[1].copy_results) >= 2

(* The create_project call for source idx is over and its result appended. *)
Handled == idx >= 1 /\ cur.source = idx

(* C11: every ProjectResult has success = TRUE exactly when one of its     *)
(* copy_results has, and the result of a source directory holding no file  *)
(* has success = FALSE.                                                    *)
C11_SuccessIffAnyCopied ==
    /\ \A i \in DOMAIN results :
         results[i].success <=>
            \E k \in DOMAIN results[i].copy_results : results[i].copy_results[k].success
    /\ (Handled /\ cur.contents = <<>>) => ~results[idx].success

C11_Witness ==
    /\ Handled /\ idx = 2
    /\ results[1].success
    /\ \E k \in DOMAIN results[1].copy_results : ~results[1].copy_results[k].success
    /\ cur.contents = <<>> /\ results[2].error = NONE /\ ~results[2].success

(* C12: the result of a source whose date is still unset when it is        *)
(* handled is a failure without copy results, with the message of          *)
(* create_project about the date that is not set or, under auto-detection, *)
(* "No date available"; handling such a source creates no directory and    *)
(* starts no copy.                                                         *)
C12_NoDateNothingCreated ==
    /\ [](\A i \in DOMAIN results :
            sources[i].date = NONE =>
                /\ ~results[i].success
                /\ results[i].copy_results = <<>>
                /\ results[i].error = IF autoDetect THEN "No date available"
                                      ELSE "Date not set for source")
    /\ [][(idx' = idx + 1 /\ sources'[idx'].date = NONE) =>
             (dirs' = dirs /\ fs' = fs /\ tasks' = tasks /\ pc' = "pms_loop")]_vars

C12_Witness ==
    /\ Handled /\ idx = 2 /\ ~autoDetect
    /\ results[1].success /\ dirs # {} /\ fs # <<>>
    /\ sources[2].date = NONE /\ ~results[2].success

(* Free space below 1.2 times the size of the files of the source.         *)
BelowMargin == 10 * cur.free < 12 * cur.source_size

Copied(i) ==
    \E p \in DOMAIN fs : \E n \in DOMAIN fs[p].writers : fs[p].writers[n][1] = i

SpaceFailure(i) ==
    /\ ~results[i].success
    /\ results[i].error = "Insufficient disk space"
    /\ results[i].copy_results = <<>>
    /\ ~Copied(i)
    /\ \A t \in Tasks : tasks[t].pc = "collected"

(* C13 as stated: whenever the free space is below 1.2 times the size of   *)
(* the source, the result is the insufficient-space failure and no copy    *)
(* was started; otherwise the result is not the insufficient-space         *)
(* failure.                                                                *)
C13_AsStated ==
    Handled =>
        /\ BelowMargin => SpaceFailure(idx)
        /\ ~BelowMargin => results[idx].error # "Insufficient disk space"

(* C13 amended: the same for a call that reaches its space check, that is  *)
(* whose source has a date and whose PROJETS_PHOTO/<year> directory could  *)
(* be made.                                                                *)
C13_SpaceCheck ==
    Handled =>
        /\ (/\ BelowMargin
            /\ sources[idx].date # NONE
            /\ <<PROJECT_ROOT_DIR, Year(sources[idx].date)>> \in dirs)
           => SpaceFailure(idx)
        /\ ~BelowMargin => results[idx].error # "Insufficient disk space"

C13_Witness ==
    /\ Handled /\ idx = 2 /\ results[1].success /\ fs # <<>>
    /\ BelowMargin /\ SpaceFailure(2)

(* C14 as stated: a create_project call that ends with the                 *)
(* insufficient-space failure leaves the directories as they were.         *)
C14_AsStated ==
    [][(results' # results
        /\ results'[Len(results')].error = "Insufficient disk space")
       => dirs' = dirs]_vars

(* C14 amended: a create_project call that ends with the                   *)
(* insufficient-space failure has made no directory other than             *)
(* PROJETS_PHOTO and PROJETS_PHOTO/<year>: no project folder, none of its  *)
(* subfolders, and no file.                                                *)
C14_CheckBeforeStructure ==
    [][(results' # results
        /\ results'[Len(results')].error = "Insufficient disk space")
       => /\ dirs' \ dirs \subseteq
                {<<PROJECT_ROOT_DIR>>,
                 <<PROJECT_ROOT_DIR, Year(sources[Current].date)>>}
          /\ fs' = fs]_vars

C14_Witness ==
    /\ Handled /\ idx = 1
    /\ results[1].error = "Insufficient disk space"
    /\ dirs = {<<PROJECT_ROOT_DIR>>, <<PROJECT_ROOT_DIR, Year(sources[1].date)>>}

C16_FailureHasMessage ==
    \A i \in DOMAIN results :
        /\ ~results[i].success => Populated(results[i].error)
        /\ \A k \in DOMAIN results[i].copy_results :
             ~results[i].copy_results[k].success =>
                 Populated(results[i].copy_results[k].error)

(* The supported image at position j of the listing yields a datetime.     *)
DatedAt(j) ==
    /\ Supported(scan.listing[j])
    /\ ExtractDateUncached(scan.listing[j].image).value # Nothing

Ts(j) == ExtractDateUncached(scan.listing[j].image).value[1]

FailsAt(j) ==
    /\ Supported(scan.listing[j])
    /\ ExtractDateUncached(scan.listing[j].image).op = "raise"

(* The optional datetime that is the least of those at the positions J.    *)
Earliest(J) ==
    IF J = {} THEN Nothing
    ELSE Some(Ts(CHOOSE j \in J : \A k \in J : ~Before(Ts(k), Ts(j))))

Reordered(p) == [i \in 1..Len(scan.listing) |-> scan.listing[p[i]]]

(* C17: find_earliest_date returns the least of the datetimes extracted    *)
(* from the supported files of the directory, at every point of the scan   *)
(* its running minimum is the least of those visited so far, and the       *)
(* result is the same for every order of visiting the same files.          *)
C17_ReturnsMinimum ==
    /\ scan.pc = "scan" =>
         scan.earliest = Earliest({j \in 1..scan.i : DatedAt(j)})
    /\ scan.pc = "returned" =>
         /\ scan.result = Earliest({j \in 1..Len(scan.listing) : DatedAt(j)})
         /\ \A p \in Permutations(1..Len(scan.listing)) :
              FindEarliestDate(Reordered(p), scan.callback) = scan.result

C17_Witness ==
    /\ scan.pc = "returned" /\ Len(scan.listing) = 3
    /\ \A j \in 1..3 : DatedAt(j)
    /\ Before(Ts(2), Ts(3)) /\ Before(Ts(3), Ts(1))
    /\ scan.result = Some(Ts(2))

(* The positions whose file gives the first datetime of the scan or one    *)
(* strictly earlier than all before it.                                    *)
Improving(upto) ==
    {j \in 1..upto : DatedAt(j) /\ \A k \in 1..(j - 1) :
                                      DatedAt(k) => Before(Ts(j), Ts(k))}

C19_NothingFound ==
    entry = "scan" =>
        /\ (\A j \in 1..scan.i : ~DatedAt(j)) =>
               scan.notified = <<>> /\ scan.earliest = Nothing
        /\ (scan.pc = "returned" /\ \A j \in 1..Len(scan.listing) : ~DatedAt(j)) =>
               scan.result = Nothing /\ scan.notified = <<>>

C19_Witness ==
    /\ scan.pc = "returned" /\ scan.callback /\ scan.result = Nothing
    /\ Len(scan.listing) = 3
    /\ \E j \in 1..3 : ~Supported(scan.listing[j])
    /\ \E j \in 1..3 : FailsAt(j)
    /\ \E j \in 1..3 : Supported(scan.listing[j]) /\ ~FailsAt(j) /\ ~DatedAt(j)

Opens(e) == ~(Supported(e) /\ ExtractDateUncached(e.image).op = "raise")

Files(notified, listing) ==
    [n \in DOMAIN notified |-> <<listing[notified[n][1]], notified[n][2]>>]

(* C20: find_earliest_date never ends with an EXIFError; it returns only   *)
(* after the last entry, having handed every supported file to the         *)
(* extractor, and its result and notifications are those of the scan of    *)
(* the same listing without the files whose extraction fails.              *)
C20_ErrorsSkipped ==
    /\ scan.pc # "raised"
    /\ scan.pc = "returned" =>
         LET kept == SelectSeq(scan.listing, Opens)
             other == ScanFrom(Scan("scan", kept, scan.callback, 0, Nothing,
                                    0, 0, <<>>, Nothing))
         IN  /\ scan.i = Len(scan.listing)
             /\ scan.files_checked =
                  Cardinality({j \in 1..Len(scan.listing) : Supported(scan.listing[j])})
             /\ scan.result = other.result
             /\ Files(scan.notified, scan.listing) = Files(other.notified, kept)

C20_Witness ==
    /\ scan.pc = "returned" /\ scan.callback /\ Len(scan.listing) = 3
    /\ DatedAt(1) /\ FailsAt(2) /\ DatedAt(3)
    /\ Before(Ts(3), Ts(1))
    /\ scan.result = Some(Ts(3))

(* C21 as stated: since the last clear_cache no file has been read more    *)
(* than once.                                                              *)
C21_AsStated ==
    \A k \in DOMAIN exifHandler.reads : exifHandler.reads[k] <= 1

(* C21 amended: an extract_date for a path whose entry is in the cache     *)
(* returns what the earlier read of the file gave, without opening the     *)
(* file; since the last clear_cache a file is read again only after its    *)
(* entry was evicted or after its extraction raised.                       *)
C21_CachedWhileHeld ==
    entry = "cache" =>
        /\ (exifHandler.last.op = "extract" /\ exifHandler.last.held) =>
              /\ exifHandler.last.outcome = "hit"
              /\ ~exifHandler.last.opened
              /\ exifHandler.last.result = exifHandler.last.earlier
        /\ exifHandler.cache.maxsize >= 1 =>
              \A k \in DOMAIN exifHandler.reads :
                  exifHandler.reads[k] <=
                      1 + Get(exifHandler.evicted, k) + Get(exifHandler.errors, k)

C21_Witness ==
    /\ exifHandler.last.op = "extract" /\ exifHandler.last.outcome = "hit"
    /\ exifHandler.last.path.relative
    /\ exifHandler.last.result # ExtractDateUncached(exifHandler.disk[1]).value

(* C22: right after clear_cache the cache is empty and cache_info gives    *)
(* size 0, hits 0, misses 0 and hit_rate 0; the first extract_date after   *)
(* it is a miss that opens the file.                                       *)
C22_ClearResets ==
    entry = "cache" =>
        /\ exifHandler.last.op = "clear" =>
              /\ exifHandler.cache.entries = <<>>
              /\ CacheInfo(exifHandler.cache).size = 0
              /\ CacheInfo(exifHandler.cache).hits = 0
              /\ CacheInfo(exifHandler.cache).misses = 0
              /\ CacheInfo(exifHandler.cache).hit_rate[1] = 0
        /\ (exifHandler.last.op = "extract" /\ exifHandler.lookups = 1) =>
              /\ exifHandler.last.outcome # "hit"
              /\ exifHandler.last.opened
              /\ exifHandler.cache.misses = 1 /\ exifHandler.cache.hits = 0

C22_Witness ==
    /\ exifHandler.last.op = "extract" /\ exifHandler.lookups = 1
    /\ exifHandler.cache.maxsize = EXIF_CACHE_SIZE
    /\ exifHandler.last.outcome = "miss"
    /\ exifHandler.opens[Resolve(exifHandler.last.path)] = 2

(* C23: the cache never holds more entries than its capacity nor a key     *)
(* twice; hits + misses is the number of lookups since the last clear;     *)
(* hit_rate is hits / (hits + misses), and 0 without lookups; an entry is  *)
(* evicted only by an insertion into a full cache, and it is the one used  *)
(* least recently.                                                         *)
C23_CacheBounds ==
    entry = "cache" =>
        LET c == exifHandler.cache
            info == CacheInfo(c)
        IN  /\ info.size <= info.maxsize
            /\ Cardinality(Keys(c.entries)) = Len(c.entries)
            /\ info.hits + info.misses = exifHandler.lookups
            /\ info.hit_rate[2] > 0
            /\ info.hit_rate[1] * (info.hits + info.misses) = info.hits * info.hit_rate[2]
            /\ exifHandler.lookups = 0 => info.hit_rate[1] = 0
            /\ exifHandler.last.evicted # 0 =>
                  /\ exifHandler.last.outcome = "miss"
                  /\ info.size = info.maxsize
                  /\ exifHandler.last.evicted \notin Keys(c.entries)
                  /\ \A k \in Keys(c.entries) :
                       exifHandler.used[exifHandler.last.evicted] < exifHandler.used[k]

C23_Witness ==
    /\ exifHandler.cache.maxsize = EXIF_CACHE_SIZE
    /\ exifHandler.last.evicted = 1002
    /\ exifHandler.cache.hits >= 1
    /\ Len(exifHandler.cache.entries) = EXIF_CACHE_SIZE

(* Property helpers for sanitize_filename.                                 *)
Underscores(n) == [i \in 1..n |-> "_"]

Prefix(s, n) == IF Len(s) > n THEN SubSeq(s, 1, n) ELSE s

OnlyOf(name, chars) == \A i \in 1..Len(name) : name[i] \in chars

Whitespace == {" ", "\t"}

ValidName(name, max_length) ==
    /\ name # <<>>
    /\ Len(name) <= max_length
    /\ \A i \in 1..Len(name) : name[i] \notin InvalidChars
    /\ name[1] \notin StripChars
    /\ name[Len(name)] \notin StripChars

(* C27 as stated: a non-empty name made only of unsafe characters is       *)
(* sanitized to 'unnamed', and the result is never empty with the default  *)
(* maximum length.                                                         *)
C27_AsStated ==
    naming.called =>
        /\ (naming.name # <<>> /\ OnlyOf(naming.name, InvalidChars)) =>
              naming.result = Unnamed
        /\ naming.max_length = MAX_FILENAME_LENGTH => naming.result # <<>>

(* C27 amended: a name made only of unsafe characters is sanitized to as   *)
(* many underscores, cut at max_length; the empty name and a name made     *)
(* only of dots and spaces are sanitized to 'unnamed', cut at max_length;  *)
(* the result is never empty with the default maximum length.              *)
C27_Placeholder ==
    naming.called =>
        /\ OnlyOf(naming.name, InvalidChars) /\ naming.name # <<>> =>
              naming.result = Prefix(Underscores(Len(naming.name)), naming.max_length)
        /\ OnlyOf(naming.name, StripChars) =>
              naming.result = Prefix(Unnamed, naming.max_length)
        /\ naming.max_length = MAX_FILENAME_LENGTH => naming.result # <<>>

C27_Witness ==
    /\ naming.called
    /\ naming.name = <<"/", "*">>
    /\ naming.max_length = MAX_FILENAME_LENGTH
    /\ naming.result = <<"_", "_">>

(* C28: a valid name (non-empty, at most max_length characters, without    *)
(* unsafe character, neither beginning nor ending with a dot or a space)   *)
(* is returned unchanged.                                                  *)
C28_ValidUnchanged ==
    (naming.called /\ ValidName(naming.name, naming.max_length)) =>
        naming.result = naming.name

C28_Witness ==
    /\ naming.called
    /\ naming.name = <<"a", ".", "_">>
    /\ naming.max_length = MAX_FILENAME_LENGTH
    /\ naming.result = naming.name

(* C29: for every name and every max_length >= 1 the result holds no       *)
(* unsafe character, has at most max_length characters, is not empty, and  *)
(* neither begins nor ends with a dot or a whitespace character.           *)
C29_AlwaysSafe ==
    (naming.called /\ naming.max_length >= 1) =>
        /\ \A i \in 1..Len(naming.result) : naming.result[i] \notin InvalidChars
        /\ Len(naming.result) <= naming.max_length
        /\ naming.result # <<>>
        /\ naming.result[1] \notin {"."} \cup Whitespace
        /\ naming.result[Len(naming.result)] \notin {"."} \cup Whitespace

(* Property helpers for create_project_structure.                          *)
Last(seq) == seq[Len(seq)]

Under(path, names) == {Append(path, <<names[i]>>) : i \in 1..Len(names)}

DefaultTree(project_path) ==
    Under(project_path, <<"01_PRE-PRODUCTION", "02_RAW", "03_SELECTS",
                          "04_RETOUCHE", "05_VIDEO", "06_ADMIN">>)
    \cup Under(Append(project_path, <<"01_PRE-PRODUCTION">>),
               <<"Moodboard", "References", "Brief">>)
    \cup Under(Append(project_path, <<"04_RETOUCHE">>), <<"PSD", "FINALS">>)
    \cup Under(Append(project_path, <<"05_VIDEO">>), <<"RUSH", "FINALS">>)
    \cup Under(Append(project_path, <<"06_ADMIN">>), <<"Factures", "Contrats">>)

TemplateTree(project_path, structure) ==
    UNION {{Append(project_path, structure[i].folder)}
           \cup {Append(Append(project_path, structure[i].folder),
                        structure[i].subfolders[j]) :
                    j \in 1..Len(structure[i].subfolders)} :
           i \in 1..Len(structure)}

(* C24: a create_project_structure call leaves every file and directory    *)
(* of the drive in place; a call that repeats the call before it raises    *)
(* and returns what that call did (nothing raised after a success, the     *)
(* same project path) and leaves the drive as that call left it.           *)
C24_Idempotent ==
    (entry = "structure" /\ volume.last.op = "structure") =>
        /\ volume.drive.regular = volume.last.before.regular
        /\ volume.drive.readonly = volume.last.before.readonly
        /\ volume.last.before.directories \subseteq volume.drive.directories
        /\ volume.last.repeated =>
              /\ volume.last.raised = volume.last.earlier[1]
              /\ volume.last.returned = volume.last.earlier[2]
              /\ volume.drive = volume.last.before

C24_Witness ==
    /\ volume.last.op = "structure" /\ volume.last.repeated
    /\ volume.last.raised = <<>>
    /\ volume.last.returned = <<WeddingPath>>
    /\ volume.last.args[3] = PROJECT_STRUCTURE
    /\ volume.drive.room = 40 - 18

(* C25: after a successful create_project_structure(base, name, template)  *)
(* the path returned is base/sanitize_filename(name), it is a directory    *)
(* and holds one directory per template entry and, in each, one per        *)
(* nested entry (the fifteen directories of the default template); the     *)
(* call made no other directory than these and the parents of the project. *)
C25_Tree ==
    (entry = "structure" /\ volume.last.op = "structure"
     /\ volume.last.raised = <<>>) =>
        LET base_path == volume.last.args[1]
            structure == volume.last.args[3]
            path == Append(base_path,
                           SanitizeFilename(volume.last.args[2], MAX_FILENAME_LENGTH))
            made == volume.drive.directories
        IN  /\ volume.last.returned = <<path>>
            /\ path \in made
            /\ \A i \in 1..Len(structure) :
                 /\ Append(path, structure[i].folder) \in made
                 /\ \A j \in 1..Len(structure[i].subfolders) :
                      Append(Append(path, structure[i].folder),
                             structure[i].subfolders[j]) \in made
            /\ structure = PROJECT_STRUCTURE =>
                 /\ DefaultTree(path) \subseteq made
                 /\ Cardinality(DefaultTree(path)) = 15
            /\ (made \ volume.last.before.directories)
                 \subseteq (Ancestors(path) \cup TemplateTree(path, structure))

C25_Witness ==
    /\ volume.last.op = "structure" /\ volume.last.raised = <<>>
    /\ volume.last.args[2] = <<"a", "/", "b">>
    /\ volume.last.args[3] = PROJECT_STRUCTURE
    /\ volume.last.returned = <<Append(YearDir, <<"a", "_", "b">>)>>
    /\ volume.last.before.directories = {}
    /\ Cardinality(volume.drive.directories) = 18

(* C26: when a mkdir of create_project_structure fails, the call raises    *)
(* ProjectStructureError with the project path and the reason of the OS    *)
(* error; the directory that failed was tried once, the ones before it     *)
(* were made and none after it was tried; create_project then returns a    *)
(* failed ProjectResult with that message and does not call                *)
(* organize_files.                                                         *)
C26_StructureError ==
    (entry = "structure" /\ volume.last.raised # <<>>) =>
        LET msg == volume.last.raised[1]
            failed == Last(volume.last.attempted)
            d == volume.drive
        IN  /\ msg[1] = "Failed to create project structure at"
            /\ msg[2] = volume.last.attempted[1]
            /\ msg[3] \in {EEXIST, ENOTDIR, EACCES, ENOSPC}
            /\ msg[3] = EEXIST => failed \in d.regular
            /\ msg[3] = ENOTDIR => \E a \in Ancestors(Parent(failed)) : a \in d.regular
            /\ msg[3] = EACCES =>
                 \E a \in Ancestors(Parent(failed)) \cup {<<>>} : a \in d.readonly
            /\ msg[3] = ENOSPC => d.room = 0
            /\ failed \notin d.directories
            /\ \A i \in 1..(Len(volume.last.attempted) - 1) :
                 /\ volume.last.attempted[i] \in d.directories
                 /\ volume.last.attempted[i] # failed
            /\ volume.last.returned = <<>>
            /\ volume.last.op = "create_project" =>
                 /\ volume.last.result =
                      <<ProjectResult(volume.last.args[1], <<>>, <<>>, FALSE, msg)>>
                 /\ volume.last.organized = <<>>

C26_Witness ==
    /\ volume.last.op = "create_project"
    /\ volume.last.raised # <<>>
    /\ volume.last.raised[1][3] = ENOSPC
    /\ Len(volume.last.attempted) > 3
    /\ volume.last.result # <<>>
    /\ volume.last.result[1].error = volume.last.raised[1]

(* Property helpers for the cancellation.                                  *)
MoreSources ==
    \/ pc = "pw_detect" /\ gui.detected < Len(sources)
    \/ pc = "pms_loop" /\ idx < Len(sources)

WorkerStopped ==
    /\ pc = "pw_cancelled" =>
          /\ gui.stop
          /\ \A t \in Tasks : tasks[t].pc = "collected"
    /\ pc = "pw_killed" =>
          /\ gui.stop
          /\ \A t \in Tasks : tasks[t].pc \in {"finished", "collected"}

WorkerStops ==
    /\ (gui.stop /\ MoreSources) => pc' \in {"pw_cancelled", "pw_killed"}
    /\ pc \in {"pw_cancelled", "pw_killed"} =>
          UNCHANGED <<pc, sources, idx, cur, results, dirs, fs, files, tasks, cfResults>>
    /\ \A t \in Running : tasks'[t].pc \in {"resolve", "copy", "finished"}

LegacyStopped ==
    /\ legacy.observed => (legacy.cancel_flag \/ legacy.pc = "done")
    /\ legacy.pc \in {"ps_loop", "organize", "ps_end", "done"} =>
          \A t \in DOMAIN legacy.tasks : legacy.tasks[t] \in {"pending", "done", "skipped"}

LegacyStops ==
    /\ \A t \in Copying(legacy) : legacy'.tasks[t] \in {"copying", "done"}
    /\ legacy.observed =>
          /\ Copying(legacy') \subseteq Copying(legacy)
          /\ legacy'.started = legacy.started

C30_WitnessWorker ==
    /\ entry = "gui"
    /\ pc = "pw_cancelled"
    /\ idx = 1 /\ Len(sources) = 2
    /\ results[1].success

(* C31: while copy_files_concurrent runs, the number of copy_file calls in *)
(* progress never exceeds max_workers, however many files were given.      *)
C31_BoundedPool ==
    Cardinality(Running) <= maxWorkers

C31_Witness ==
    /\ entry = "copy"
    /\ pc = "cfc_collect"
    /\ Len(files) > maxWorkers
    /\ Cardinality(Running) = maxWorkers
    /\ \E t \in Tasks : tasks[t].pc = "queued"

(* Property helpers for the progress callback.                             *)
CallsMade ==
    LET c == progress.calls
    IN  /\ progress.active \in {0, 1}
        /\ progress.active = 1 <=> pc = "cfc_callback"
        /\ Len(c) = Len(cfResults)
        /\ \A k \in 1..Len(c) :
              /\ c[k].completed = k
              /\ c[k].total = Len(files)
              /\ c[k].future \in Tasks
              /\ tasks[c[k].future].pc = "collected"
              /\ c[k].current_file = files[c[k].future].path
              /\ cfResults[k] = tasks[c[k].future].result
        /\ \A j, k \in 1..Len(c) : c[j].future = c[k].future => j = k
        /\ pc = "copy_done" => Len(c) = Len(files)

(* C32 as stated: n calls with completed = 1..n and total = n, one at a    *)
(* time, each after the copy it reports and for a distinct outcome, in the *)
(* order in which the copies ended.                                        *)
C32_AsStated ==
    /\ CallsMade
    /\ \A k \in 1..Len(progress.calls) :
          progress.calls[k].future = progress.ended[k]

(* C32: when copy_files_concurrent returns the callback was called once    *)
(* per file, by the calling thread and one call at a time, with completed  *)
(* = 1, 2, ..., n and total = n, each call after the copy it reports has   *)
(* ended and with the source of a distinct outcome; the outcomes of the    *)
(* copies that ended while as_completed was waiting are reported in the    *)
(* order in which they ended, after those that had ended before it began,  *)
(* which are reported in no particular order.                              *)
C32_Calls ==
    /\ CallsMade
    /\ \A k \in 1..Len(progress.calls) :
          IF k > progress.early
          THEN progress.calls[k].future = progress.ended[k]
          ELSE \E i \in 1..progress.early :
                  progress.calls[k].future = progress.ended[i]

C32_Witness ==
    /\ progress.callback
    /\ pc = "copy_done"
    /\ Len(files) = 3
    /\ Len(progress.calls) = 3
    /\ progress.early = 2
    /\ progress.calls[1].future # progress.ended[1]
    /\ \E k \in 1..3 : cfResults[k].success

(* C33 as stated: the construction raises for a path that does not exist   *)
(* or is not a directory, and succeeds for every existing, readable        *)
(* directory.                                                              *)
C33_AsStated ==
    construction.calls > 0 =>
        LET p == construction.path
        IN  /\ (~p.exists \/ ~p.is_dir) => construction.reason # "ok"
            /\ (p.exists /\ p.is_dir /\ p.readable) => construction.reason = "ok"

(* C33: SourceInfo raises PathValidationError when the path does not       *)
(* exist, is not a directory, cannot be listed, or has more than           *)
(* MAX_PATH_DEPTH parts; it succeeds for every other path, that is for     *)
(* every existing, readable directory of at most MAX_PATH_DEPTH parts; the *)
(* object made keeps the path, name and date given, and the date may be    *)
(* None.                                                                   *)
C33_Validated ==
    construction.calls > 0 =>
        LET p == construction.path
            raised == construction.reason # "ok"
        IN  /\ raised <=> (~p.exists \/ ~p.is_dir \/ ~p.readable
                              \/ p.parts > MAX_PATH_DEPTH)
            /\ Len(construction.made) <= construction.calls
            /\ ~raised =>
                  construction.made[Len(construction.made)] =
                      SourceInfo(p, construction.name, construction.date)

C33_Witness ==
    /\ construction.calls = 2
    /\ Len(construction.made) = 1
    /\ construction.made[1].date = NONE
    /\ construction.path = Node(MAX_PATH_DEPTH + 1, TRUE, TRUE, TRUE)
    /\ construction.reason = "Path depth exceeds 10"

(* C34: in every CopyResult of copy_file, renamed is true exactly when the *)
(* destination reported is not destination_dir / source.name, and a        *)
(* renamed result is a success.                                            *)
C34_RenamedIffDiffers ==
    \A t \in Tasks :
        tasks[t].pc \in {"finished", "collected"} =>
            LET r == tasks[t].result
            IN  /\ r.renamed <=> r.destination # Join(destDir, files[t].path.name)
                /\ r.renamed => r.success

C34_Witness ==
    /\ entry = "copy"
    /\ pc = "copy_done"
    /\ \E t \in Tasks : tasks[t].result.renamed /\ tasks[t].result.success
    /\ \E t \in Tasks : ~tasks[t].result.success
    /\ \E t \in Tasks : tasks[t].result.success /\ ~tasks[t].result.renamed

(* C35: in every ProjectResult files_copied + files_failed is the number   *)
(* of copy results, files_copied the number of those with success,         *)
(* files_failed of those without, files_renamed of those with renamed; in  *)
(* the results of create_project files_renamed is at most files_copied.    *)
C35_Counters ==
    \A k \in DOMAIN results :
        LET r == results[k]
            n == Len(r.copy_results)
        IN  /\ FilesCopied(r) + FilesFailed(r) = n
            /\ FilesCopied(r) = Cardinality({i \in 1..n : r.copy_results[i].success})
            /\ FilesFailed(r) = Cardinality({i \in 1..n : ~r.copy_results[i].success})
            /\ FilesRenamed(r) = Cardinality({i \in 1..n : r.copy_results[i].renamed})
            /\ FilesRenamed(r) <= FilesCopied(r)

C35_Witness ==
    \E k \in DOMAIN results :
        /\ FilesCopied(results[k]) = 1
        /\ FilesFailed(results[k]) = 1
        /\ FilesRenamed(results[k]) = 1

(* C36: at most one worker thread of PhotoFlowGUI is in the loops of       *)
(* _process_worker at any time, so that no two workers are inside          *)
(* create_project together.                                                *)
C36_OneWorker ==
    /\ Cardinality({w \in DOMAIN window.workers : Driving(window.workers[w])}) <= 1
    /\ \A v, w \in DOMAIN window.workers :
          (window.workers[v].at = "creating" /\ window.workers[w].at = "creating")
              => v = w

(***************************************************************************)
(* C37: copy_files_concurrent terminates.  Under fair scheduling of the    *)
(* pool threads and of the calling thread, once the files are submitted    *)
(* the call returns with one outcome per file unless a copy_file call      *)
(* never terminates; and a copy that hangs holds its own pool thread only: *)
(* every other file is still taken by a worker and carried to its outcome, *)
(* unless every thread of the pool is held by a hung copy.                 *)
(***************************************************************************)
Submitted == pc = "cfc_collect"

Returned == pc = "copy_done" /\ Len(cfResults) = Len(files)

Yielded(t) == t \in Tasks /\ tasks[t].pc \in {"finished", "collected"}

PoolHung == Cardinality(Hung) >= maxWorkers

C37_Terminates ==
    /\ Submitted ~> (Hung # {} \/ Returned)
    /\ \A t \in 1..MaxFiles :
          (t \in Tasks /\ tasks[t].pc \in {"queued", "resolve", "copy"})
              ~> (Yielded(t) \/ t \in Hung \/ PoolHung)

(* One copy hangs while a second worker completes every other file.        *)
C37_Witness ==
    /\ Len(files) = MaxFiles
    /\ Cardinality(Hung) = 1
    /\ \A t \in Tasks : t \notin Hung => tasks[t].pc = "collected"
    /\ \E t \in Hung : \E u \in Tasks : u > t /\ tasks[u].result.success

(***************************************************************************)
(* C38: in a batch, a step changes the sources or runs a date scan only    *)
(* when it is the head of a loop turn, auto_detect_dates is set and the    *)
(* source of the turn has no date; it then touches the date of that source *)
(* only.  No step changes a date that is set, nor a path, nor a name, nor  *)
(* the number of sources.                                                  *)
(***************************************************************************)
SameDate(a, b) == IF a = NONE THEN b = NONE ELSE (b # NONE /\ a = b)

C38_Frame ==
    [][/\ DOMAIN sources' = DOMAIN sources
       /\ \A i \in DOMAIN sources :
             /\ sources'[i].path = sources[i].path
             /\ sources'[i].name = sources[i].name
             /\ sources[i].date # NONE => SameDate(sources[i].date, sources'[i].date)
       /\ (scan' # scan \/ \E i \in DOMAIN sources :
                                ~SameDate(sources[i].date, sources'[i].date)) =>
             /\ autoDetect
             /\ pc = "pms_loop"
             /\ idx < Len(sources)
             /\ sources[Current].date = NONE
             /\ \A i \in DOMAIN sources :
                   i # Current => SameDate(sources[i].date, sources'[i].date)]_vars

(* A batch of two sources is over; one came with the date 2024-01-01 and   *)
(* still has it, the other came without and has the detected date.         *)
C38_Witness ==
    /\ autoDetect
    /\ pc = "pms_done"
    /\ Len(sources) = 2 /\ Len(results) = 2
    /\ scan.pc = "returned"
    /\ \E i, j \in DOMAIN sources :
          /\ SameDate(Date2024, sources[i].date)
          /\ SameDate(Strftime(T1), sources[j].date)
          /\ results[i].success /\ results[j].success

(***************************************************************************)
(* C39: sanitize_filename is idempotent: sanitizing the name it returned,  *)
(* with the same max_length, returns that name again.                      *)
(***************************************************************************)
C39_Idempotent ==
    naming.called =>
        SanitizeFilename(naming.result, naming.max_length) = naming.result

====
